---- MODULE Spec2Model ----
(***************************************************************************)
(* A model of dotenv (benizi/dotenv): the sources named on the command     *)
(* line are classified, sorted by priority, parsed and interpolated one    *)
(* after the other, merged by name, and dumped or handed to a command.     *)
(*                                                                         *)
(* A string is a sequence of characters, a character a one-letter TLA+     *)
(* string; the characters TLA+ cannot write are the atoms NUL, BEL, BS,    *)
(* VT and BQUOTE (the backquote).                                          *)
(***************************************************************************)
EXTENDS Integers, Sequences, FiniteSets, TLC

VARIABLES
    environ,          \* os.Environ(): a sequence of "NAME=value" strings
    files,            \* the file system: path |-> content, a path outside it cannot be opened
    procs,            \* /proc: [mounted, euid, table: pid |-> [mode, data]]
    osArgs,           \* os.Args[1:], as given
    pc,               \* the place main() has reached
    args, cmd, doSplit,
    sources,
    defaultType, specifiedDefault, defaultSublevel, varmatch,
    sorted, clearEnv, mode, modeset, outmode, alphanumeric, warn,
    presort,          \* the sources as handed to bypriority
    loopi,            \* the index of the source loop of main (1-based)
    vars,
    premerge,         \* the assignments as handed to uniqVarsByName
    parselog,         \* what each processed source gave: [src, ok, raw, parsed, env]
    output            \* what main() handed on: nothing yet, a dump or a launch

worldVars == <<environ, files, procs, osArgs>>
flagVars  == <<defaultType, specifiedDefault, defaultSublevel, varmatch,
               sorted, clearEnv, mode, modeset, outmode, alphanumeric, warn>>
vars_all  == <<environ, files, procs, osArgs, pc, args, cmd, doSplit, sources,
               defaultType, specifiedDefault, defaultSublevel, varmatch,
               sorted, clearEnv, mode, modeset, outmode, alphanumeric, warn,
               presort, loopi, vars, premerge, parselog, output>>

-----------------------------------------------------------------------------
(* Characters and the string functions of the Go library the code calls.   *)

NUL == "NUL"
BEL == "BEL"
BS  == "BS"
VT  == "VT"
BQUOTE == "BQUOTE"

Upper == {"A","B","C","D","E","F","G","H","I","J","K","L","M",
          "N","O","P","Q","R","S","T","U","V","W","X","Y","Z"}
Lower == {"a","b","c","d","e","f","g","h","i","j","k","l","m",
          "n","o","p","q","r","s","t","u","v","w","x","y","z"}
Digit == {"0","1","2","3","4","5","6","7","8","9"}

\* \s of the regexp package
ReSpace == {" ", "\t", "\n", "\f", "\r"}
\* [^\S\n]
HSpace == ReSpace \ {"\n"}
\* unicode.IsSpace, as far as the model's characters go (strings.TrimSpace)
UniSpace == ReSpace \cup {VT}
\* the first and the later characters of `identifier`
IdentStart == Upper \cup Lower \cup {"_"}
IdentChar == IdentStart \cup Digit
\* \w, for \b
WordChar == IdentChar

\* the characters of the TLA+ string s
Str(s) == [k \in 1..Len(s) |-> SubSeq(s, k, k)]

Take(s, n) == SubSeq(s, 1, n)
Drop(s, n) == SubSeq(s, n + 1, Len(s))

MinOf(S) == CHOOSE x \in S : \A y \in S : x <= y
MaxOf(S) == CHOOSE x \in S : \A y \in S : x >= y

HasPrefix(s, p) == Len(s) >= Len(p) /\ Take(s, Len(p)) = p
HasSuffix(s, p) == Len(s) >= Len(p) /\ Drop(s, Len(s) - Len(p)) = p

\* strings.IndexByte, 1-based; 0 when c is not in s
IndexByte(s, c) ==
    LET I == {k \in 1..Len(s) : s[k] = c}
    IN IF I = {} THEN 0 ELSE MinOf(I)

\* the length of the longest prefix of s made of characters of C
RunLen(s, C) ==
    LET I == {k \in 1..Len(s) : s[k] \notin C}
    IN IF I = {} THEN Len(s) ELSE MinOf(I) - 1

\* strings.SplitN(s, sep, n) for a one-character separator; n < 0 splits everywhere
RECURSIVE SplitN(_, _, _)
SplitN(s, c, n) ==
    LET k == IndexByte(s, c)
    IN IF n = 1 \/ k = 0 THEN <<s>>
       ELSE <<Take(s, k - 1)>> \o SplitN(Drop(s, k), c, n - 1)

\* strings.TrimSpace
TrimSpace(s) ==
    LET I == {k \in 1..Len(s) : s[k] \notin UniSpace}
    IN IF I = {} THEN <<>> ELSE SubSeq(s, MinOf(I), MaxOf(I))

\* bufio.ScanLines: the lines of d without their end-of-line marker
DropCR(s) == IF Len(s) > 0 /\ s[Len(s)] = "\r" THEN Take(s, Len(s) - 1) ELSE s
RECURSIVE ScanLines(_)
ScanLines(d) ==
    LET k == IndexByte(d, "\n")
    IN IF d = <<>> THEN <<>>
       ELSE IF k = 0 THEN <<DropCR(d)>>
       ELSE <<DropCR(Take(d, k - 1))>> \o ScanLines(Drop(d, k))

RECURSIVE Concat(_)
Concat(ss) == IF ss = <<>> THEN <<>> ELSE Head(ss) \o Concat(Tail(ss))

\* the sequences over S of length at most n
SeqUpTo(S, n) == UNION {[1..k -> S] : k \in 0..n}

\* the byte order of the characters and of the strings
Printable ==
    Str(" !") \o <<"\"">> \o Str("#$%&'()*+,-./0123456789:;<=>?@ABCDEFGHIJKLMNOPQRSTUVWXYZ[")
        \o <<"\\">> \o Str("]^_") \o <<BQUOTE>> \o Str("abcdefghijklmnopqrstuvwxyz{|}~")
Controls == (NUL :> 0) @@ (BEL :> 7) @@ (BS :> 8) @@ ("\t" :> 9) @@ ("\n" :> 10) @@
            (VT :> 11) @@ ("\f" :> 12) @@ ("\r" :> 13)
charcode(c) == IF c \in DOMAIN Controls THEN Controls[c] ELSE 31 + IndexByte(Printable, c)

RECURSIVE strless(_, _)
strless(a, b) ==
    IF b = <<>> THEN FALSE
    ELSE IF a = <<>> THEN TRUE
    ELSE IF a[1] # b[1] THEN charcode(a[1]) < charcode(b[1])
    ELSE strless(Tail(a), Tail(b))

-----------------------------------------------------------------------------
(* Source kinds, substitution levels, ranks.                               *)

notype  == "notype"
file    == "file"
shell   == "shell"
raw     == "raw"
osenv   == "osenv"
laxfile == "laxfile"
jsonmap == "jsonmap"
pid     == "pid"

neversub == 0
maybesub == 1
forcesub == 2
nosublevel == -1

\* inittyperank: the rank of each ranked kind
typerank ==
    (raw :> 0) @@ (jsonmap :> 1) @@ (osenv :> 2) @@
    (file :> 3) @@ (shell :> 3) @@ (laxfile :> 3)
typerankmax == 4

\* rank without the test of ok: a kind that typerank lacks gets the zero value
rankZeroValue(kind) == IF kind \in DOMAIN typerank THEN typerank[kind] ELSE 0

rank(kind) == IF kind \in DOMAIN typerank THEN typerank[kind] ELSE typerankmax

defaultsub(kind) == IF kind \in {shell, laxfile} THEN maybesub ELSE neversub

varsource(data, kind, explicit, optional, sublevel) ==
    [data |-> data, kind |-> kind, explicit |-> explicit,
     optional |-> optional, sublevel |-> sublevel]

envvar(name, val, allowsubs, tombstone) ==
    [name |-> name, val |-> val, allowsubs |-> allowsubs, tombstone |-> tombstone]

parsevar(s) ==
    LET parts == SplitN(s, "=", 2)
    IN envvar(parts[1], IF Len(parts) > 1 THEN parts[2] ELSE <<>>, FALSE, FALSE)

getsublevel(src) ==
    IF src.sublevel # nosublevel THEN src.sublevel ELSE defaultsub(src.kind)

-----------------------------------------------------------------------------
(* The regular expressions of the line parsers.                            *)

NoMatch == [ok |-> FALSE, len |-> 0, cap |-> <<>>]
Match(n, c) == [ok |-> TRUE, len |-> n, cap |-> c]

\* comment: ^\s*#
comment(line) ==
    LET h == RunLen(line, ReSpace)
    IN h < Len(line) /\ line[h + 1] = "#"

\* nonstrict: ^[^\s=]+=
nonstrict(line) ==
    LET n == RunLen(line, {line[k] : k \in 1..Len(line)} \ (ReSpace \cup {"="}))
    IN n >= 1 /\ n < Len(line) /\ line[n + 1] = "="

\* assignment: ^[A-Za-z_][A-Za-z_0-9]*=
assignment(line) ==
    LET n == RunLen(line, IdentChar)
    IN n >= 1 /\ line[1] \in IdentStart /\ n < Len(line) /\ line[n + 1] = "="

\* name: [A-Za-z_][A-Za-z_0-9]*, not anchored
name(tok) == \E k \in 1..Len(tok) : tok[k] \in IdentStart

matcher(alnum, line) == IF alnum THEN assignment(line) ELSE nonstrict(line)

ParseOk(vs) == [err |-> FALSE, vars |-> vs]
ParseErr == [err |-> TRUE, vars |-> <<>>]

-----------------------------------------------------------------------------
(* parseFile: one assignment per matching line, taken verbatim.            *)

RECURSIVE fileLines(_, _)
fileLines(lines, alnum) ==
    IF lines = <<>> THEN <<>>
    ELSE LET line == Head(lines)
             rest == fileLines(Tail(lines), alnum)
         IN IF comment(line) THEN rest
            ELSE IF matcher(alnum, line) THEN <<parsevar(line)>> \o rest
            ELSE rest

parseFile(src, fs, alnum) ==
    IF src.data \notin DOMAIN fs THEN ParseErr
    ELSE ParseOk(fileLines(ScanLines(fs[src.data]), alnum))

-----------------------------------------------------------------------------
(* parseShell: the lines are split into words by shellwords.Parser.Parse.  *)

ShellSpace == {" ", "\t", "\r", "\n"}
ShellStop == {";", "&", "|", "<", ">"}

shInit == [args |-> <<>>, buf |-> <<>>, escaped |-> FALSE, doubleQuoted |-> FALSE,
           singleQuoted |-> FALSE, backQuote |-> FALSE, got |-> FALSE, stop |-> FALSE]

\* one round of the loop of Parse, on character r
shStep(st, r) ==
    IF st.stop THEN st
    ELSE IF st.escaped THEN [st EXCEPT !.buf = @ \o <<r>>, !.escaped = FALSE]
    ELSE IF r = "\\" THEN
        IF st.singleQuoted THEN [st EXCEPT !.buf = @ \o <<r>>]
        ELSE [st EXCEPT !.escaped = TRUE]
    ELSE IF r \in ShellSpace THEN
        IF st.singleQuoted \/ st.doubleQuoted \/ st.backQuote
        THEN [st EXCEPT !.buf = @ \o <<r>>]
        ELSE IF st.got THEN [st EXCEPT !.args = @ \o <<st.buf>>, !.buf = <<>>, !.got = FALSE]
        ELSE st
    ELSE IF r = "\"" /\ ~st.singleQuoted THEN [st EXCEPT !.doubleQuoted = ~@]
    ELSE IF r = "'" /\ ~st.doubleQuoted THEN [st EXCEPT !.singleQuoted = ~@]
    ELSE IF r \in ShellStop /\ ~(st.singleQuoted \/ st.doubleQuoted \/ st.backQuote)
        THEN [st EXCEPT !.stop = TRUE]
    ELSE LET t == IF r = BQUOTE /\ ~st.singleQuoted /\ ~st.doubleQuoted
                  THEN [st EXCEPT !.backQuote = ~@] ELSE st
         IN [t EXCEPT !.buf = @ \o <<r>>, !.got = TRUE]

RECURSIVE shFold(_, _)
shFold(st, line) == IF line = <<>> THEN st ELSE shFold(shStep(st, Head(line)), Tail(line))

\* shellwords.Parser.Parse(line): the words, or an error on an open quote or escape
shellwords(line) ==
    LET st == shFold(shInit, line)
        out == IF st.got THEN st.args \o <<st.buf>> ELSE st.args
    IN IF st.escaped \/ st.singleQuoted \/ st.doubleQuoted \/ st.backQuote
       THEN [err |-> TRUE, tokens |-> <<>>]
       ELSE [err |-> FALSE, tokens |-> out]

\* the inner loop of parseShell: join the following lines while the words do not parse
RECURSIVE shellJoin(_, _)
shellJoin(line, rest) ==
    IF shellwords(line).err /\ rest # <<>>
    THEN shellJoin(line \o <<"\n">> \o Head(rest), Tail(rest))
    ELSE [line |-> line, rest |-> rest]

EXPORT == Str("export")

\* what one (joined) line of a shell file adds to vars
shellLine(line) ==
    LET p == shellwords(line)
        tokens == IF p.tokens # <<>> /\ p.tokens[1] = EXPORT THEN Tail(p.tokens) ELSE p.tokens
    IN IF p.err \/ tokens = <<>> THEN <<>>
       ELSE IF assignment(tokens[1]) THEN <<parsevar(tokens[1])>>
       ELSE IF name(tokens[1]) /\ Len(tokens) > 1 THEN
           <<envvar(tokens[1],
                    IF tokens[2] = <<"=">> /\ Len(tokens) > 2 THEN tokens[3] ELSE tokens[2],
                    TRUE, FALSE)>>
       ELSE <<>>

RECURSIVE shellLines(_)
shellLines(lines) ==
    IF lines = <<>> THEN <<>>
    ELSE IF comment(Head(lines)) THEN shellLines(Tail(lines))
    ELSE LET j == shellJoin(Head(lines), Tail(lines))
         IN shellLine(j.line) \o shellLines(j.rest)

parseShell(src, fs) ==
    IF src.data \notin DOMAIN fs THEN ParseErr
    ELSE ParseOk(shellLines(ScanLines(fs[src.data])))

-----------------------------------------------------------------------------
(* parseLax: the regular expressions, each matched at the front of d.      *)

RunLenNot(s, C) == RunLen(s, {s[k] : k \in 1..Len(s)} \ C)

\* laxcomment: ^[^\S\n]*#[^\n]*(\n|$)
laxcomment(d) ==
    LET h == RunLen(d, HSpace)
        nl == IndexByte(Drop(d, h), "\n")
    IN IF h < Len(d) /\ d[h + 1] = "#"
       THEN Match(IF nl = 0 THEN Len(d) ELSE h + nl, <<>>)
       ELSE NoMatch

\* laxempty without its end, (\n|$): the blanks at the front, none included
laxemptyNoEnd(d) == Match(RunLen(d, HSpace), <<>>)

\* laxempty: ^[^\S\n]*(\n|$)
laxempty(d) ==
    LET h == RunLen(d, HSpace)
    IN IF h = Len(d) THEN Match(h, <<>>)
       ELSE IF d[h + 1] = "\n" THEN Match(h + 1, <<>>)
       ELSE NoMatch

\* ^[^\S\n]*([^\s=#]+), the tail of laxID
laxIDname(d) ==
    LET h == RunLen(d, HSpace)
        n == RunLenNot(Drop(d, h), ReSpace \cup {"=", "#"})
    IN IF n >= 1 THEN Match(h + n, SubSeq(d, h + 1, h + n)) ELSE NoMatch

\* laxID: ^(?:[^\S\n]*export\b)?[^\S\n]*([^\s=#]+)
\* the export group is tried first and given up when the rest does not match
laxID(d) ==
    LET h == RunLen(d, HSpace)
        e == Drop(d, h)
        isexport == HasPrefix(e, EXPORT) /\ (Len(e) = 6 \/ e[7] \notin WordChar)
        m == laxIDname(Drop(e, 6))
    IN IF isexport /\ m.ok THEN Match(h + 6 + m.len, m.cap)
       ELSE laxIDname(d)

\* laxequals: ^[^\S\n]*=[^\S\n]*
laxequals(d) ==
    LET h == RunLen(d, HSpace)
    IN IF h < Len(d) /\ d[h + 1] = "="
       THEN Match(h + 1 + RunLen(Drop(d, h + 1), HSpace), <<>>)
       ELSE NoMatch

\* laxqstart: ^(['"])
laxqstart(d) ==
    IF d # <<>> /\ d[1] \in {"'", "\""} THEN Match(1, <<d[1]>>) ELSE NoMatch

\* the quoted value up to the first quote, escaped or not
laxquotedNoEscape(d, q, p) ==
    IF IndexByte(d, q) = 0 THEN NoMatch
    ELSE Match(IndexByte(d, q), Take(d, IndexByte(d, q) - 1))

\* laxsingleq, laxdoubleq: ^((?:[^\\q]|\\(?s:.))*)q for the quote q, from position p
RECURSIVE laxquoted(_, _, _)
laxquoted(d, q, p) ==
    IF p > Len(d) THEN NoMatch
    ELSE IF d[p] = q THEN Match(p, Take(d, p - 1))
    ELSE IF d[p] = "\\" THEN
        IF p + 1 > Len(d) THEN NoMatch ELSE laxquoted(d, q, p + 2)
    ELSE laxquoted(d, q, p + 1)

laxsingleq(d) == laxquoted(d, "'", 1)
laxdoubleq(d) == laxquoted(d, "\"", 1)

\* laxdiscard: ^([^\n]*)(?:\n|$)
laxdiscard(d) ==
    LET nl == IndexByte(d, "\n")
    IN IF nl = 0 THEN Match(Len(d), d) ELSE Match(nl, Take(d, nl - 1))

\* laxtrailer: ^((?s:.)+?)\s+#  -- the shortest head followed by blanks and a #
laxtrailer(val) ==
    LET K == {k \in 1..Len(val) :
                LET r == Drop(val, k)
                    w == RunLen(r, ReSpace)
                IN w >= 1 /\ w < Len(r) /\ r[w + 1] = "#"}
    IN IF K = {} THEN NoMatch ELSE Match(0, Take(val, MinOf(K)))

\* substitutions valid for single-quoted strings
laxsqsubs == ("'" :> "'") @@ ("\\" :> "\\")
\* substitutions valid for double-quoted strings
laxdqsubs ==
    ("'" :> "'") @@ ("\\" :> "\\") @@ ("\"" :> "\"") @@ ("a" :> BEL) @@ ("b" :> BS) @@
    ("f" :> "\f") @@ ("n" :> "\n") @@ ("r" :> "\r") @@ ("t" :> "\t") @@ ("v" :> VT)

\* laxescaped.ReplaceAllStringFunc(s, f): every backslash and its next character
RECURSIVE laxunquote(_, _)
laxunquote(s, subs) ==
    IF s = <<>> THEN <<>>
    ELSE IF s[1] = "\\" /\ Len(s) > 1 THEN
        (IF s[2] \in DOMAIN subs THEN <<subs[s[2]]>> ELSE <<s[1], s[2]>>)
            \o laxunquote(Drop(s, 2), subs)
    ELSE <<s[1]>> \o laxunquote(Tail(s), subs)

\* the single-quoted value decoded with the table of the double quote
laxparsesqAsDq(s) == laxunquote(s, laxdqsubs)

laxparsesq(s) == laxunquote(s, laxsqsubs)
laxparsedq(s) == laxunquote(s, laxdqsubs)

\* the value of a lax line without allowsubs = false for the single quote
laxValueAllEligible(d) ==
    LET q == laxqstart(d)
        d1 == Drop(d, q.len)
        single == q.ok /\ q.cap = <<"'">>
        m == IF single THEN laxsingleq(d1) ELSE laxdoubleq(d1)
        d2 == Drop(d1, m.len)
        c == laxcomment(d2)
        e == laxdiscard(d)
        val == TrimSpace(e.cap)
        t == laxtrailer(val)
    IN IF q.ok THEN
           IF ~m.ok THEN [kind |-> "error", rest |-> d1]
           ELSE [kind |-> "var",
                 rest |-> Drop(d2, IF c.ok THEN c.len ELSE laxdiscard(d2).len),
                 val |-> IF single THEN laxparsesq(m.cap) ELSE laxparsedq(m.cap),
                 allowsubs |-> TRUE]
       ELSE [kind |-> "var", rest |-> Drop(d, e.len),
             val |-> IF t.ok THEN t.cap ELSE val, allowsubs |-> TRUE]

\* what follows the = of a lax line: a quoted value, or the rest of the line
laxValue(d) ==
    LET q == laxqstart(d)
        d1 == Drop(d, q.len)
        single == q.ok /\ q.cap = <<"'">>
        m == IF single THEN laxsingleq(d1) ELSE laxdoubleq(d1)
        d2 == Drop(d1, m.len)
        c == laxcomment(d2)
        e == laxdiscard(d)
        val == TrimSpace(e.cap)
        t == laxtrailer(val)
    IN IF q.ok THEN
           IF ~m.ok THEN [kind |-> "error", rest |-> d1]
           ELSE [kind |-> "var",
                 rest |-> Drop(d2, IF c.ok THEN c.len ELSE laxdiscard(d2).len),
                 val |-> IF single THEN laxparsesq(m.cap) ELSE laxparsedq(m.cap),
                 allowsubs |-> ~single]
       ELSE [kind |-> "var", rest |-> Drop(d, e.len),
             val |-> IF t.ok THEN t.cap ELSE val, allowsubs |-> TRUE]

\* one round of the loop of parseLax on the non-empty buffer d:
\* what the round found and the buffer it leaves
laxStep(d) ==
    LET c == laxcomment(d)
        e == laxempty(d)
        id == laxID(d)
        d1 == Drop(d, id.len)
        c1 == laxcomment(d1)
        e1 == laxempty(d1)
        q1 == laxequals(d1)
        v == laxValue(Drop(d1, q1.len))
    IN IF c.ok THEN [kind |-> "comment", rest |-> Drop(d, c.len)]
       ELSE IF e.ok THEN [kind |-> "empty", rest |-> Drop(d, e.len)]
       ELSE IF ~id.ok THEN [kind |-> "invalid", rest |-> Drop(d, laxdiscard(d).len)]
       ELSE IF c1.ok THEN
           [kind |-> "var", rest |-> Drop(d1, c1.len),
            var |-> envvar(id.cap, <<>>, TRUE, FALSE)]
       ELSE IF e1.ok THEN
           [kind |-> "var", rest |-> Drop(d1, e1.len),
            var |-> envvar(id.cap, <<>>, TRUE, FALSE)]
       ELSE IF q1.ok THEN
           IF v.kind = "error" THEN [kind |-> "error", rest |-> v.rest]
           ELSE [kind |-> "var", rest |-> v.rest,
                 var |-> envvar(id.cap, v.val, v.allowsubs, FALSE)]
       ELSE [kind |-> "invalid", rest |-> Drop(d1, laxdiscard(d1).len)]

\* the loop of parseLax that returns what it has when a value cannot be read
RECURSIVE laxLoopKeepPartial(_, _)
laxLoopKeepPartial(d, acc) ==
    IF Len(d) = 0 THEN ParseOk(acc)
    ELSE LET s == laxStep(d)
         IN IF s.kind = "error" THEN ParseOk(acc)
            ELSE laxLoopKeepPartial(s.rest, IF s.kind = "var" THEN acc \o <<s.var>> ELSE acc)

RECURSIVE laxLoop(_, _)
laxLoop(d, acc) ==
    IF Len(d) = 0 THEN ParseOk(acc)
    ELSE LET s == laxStep(d)
         IN IF s.kind = "error" THEN ParseErr
            ELSE laxLoop(s.rest, IF s.kind = "var" THEN acc \o <<s.var>> ELSE acc)

parseLax(src, fs) ==
    IF src.data \notin DOMAIN fs THEN ParseErr
    ELSE laxLoop(fs[src.data], <<>>)

-----------------------------------------------------------------------------
(* parseOsEnviron, parseJsonMap, parseFromPid.                             *)

RECURSIVE mapvars(_)
mapvars(ss) == IF ss = <<>> THEN <<>> ELSE <<parsevar(Head(ss))>> \o mapvars(Tail(ss))

parseOsEnviron(env) == ParseOk(mapvars(env))

\* json.Unmarshal into map[string]interface{}, for the texts of the model: an
\* object whose values are null, true, false, strings, numbers, [] or {}.
JsonSpace == {" ", "\t", "\n", "\r"}
JsonControl == {"\t", "\n", "\r", "\f", NUL, BEL, BS, VT}
JsonEscapes ==
    ("\"" :> "\"") @@ ("\\" :> "\\") @@ ("/" :> "/") @@ ("b" :> BS) @@
    ("f" :> "\f") @@ ("n" :> "\n") @@ ("r" :> "\r") @@ ("t" :> "\t")
JsonFail == [ok |-> FALSE, rest |-> <<>>, val |-> <<>>]
JsonGot(rest, val) == [ok |-> TRUE, rest |-> rest, val |-> val]
jsonSkip(s) == Drop(s, RunLen(s, JsonSpace))
JSONNULL == Str("null")
JSONTRUE == Str("true")
JSONFALSE == Str("false")

\* the characters of a string literal after its opening quote
RECURSIVE jsonChars(_, _)
jsonChars(s, acc) ==
    IF s = <<>> \/ s[1] \in JsonControl THEN JsonFail
    ELSE IF s[1] = "\"" THEN JsonGot(Tail(s), acc)
    ELSE IF s[1] = "\\" THEN
        IF Len(s) > 1 /\ s[2] \in DOMAIN JsonEscapes
        THEN jsonChars(Drop(s, 2), acc \o <<JsonEscapes[s[2]]>>)
        ELSE JsonFail
    ELSE jsonChars(Tail(s), acc \o <<s[1]>>)

jsonString(s) == IF s # <<>> /\ s[1] = "\"" THEN jsonChars(Tail(s), <<>>) ELSE JsonFail

\* -?(0|[1-9][0-9]*)(\.[0-9]+)? ; a number decodes to a float64
jsonNumber(s) ==
    LET neg == IF s # <<>> /\ s[1] = "-" THEN 1 ELSE 0
        a == Drop(s, neg)
        n == RunLen(a, Digit)
        b == Drop(a, n)
        f == IF b # <<>> /\ b[1] = "." THEN RunLen(Tail(b), Digit) ELSE 0
        frac == b # <<>> /\ b[1] = "."
        len == neg + n + (IF frac THEN 1 + f ELSE 0)
    IN IF n = 0 \/ (n > 1 /\ a[1] = "0") \/ (frac /\ f = 0) THEN JsonFail
       ELSE JsonGot(Drop(s, len), [t |-> "float64", v |-> Take(s, len)])

jsonValue(s) ==
    LET str == jsonString(s)
    IN IF HasPrefix(s, JSONNULL) THEN JsonGot(Drop(s, 4), [t |-> "nil", v |-> <<>>])
       ELSE IF HasPrefix(s, JSONTRUE) THEN JsonGot(Drop(s, 4), [t |-> "bool", v |-> TRUE])
       ELSE IF HasPrefix(s, JSONFALSE) THEN JsonGot(Drop(s, 5), [t |-> "bool", v |-> FALSE])
       ELSE IF HasPrefix(s, <<"[", "]">>) THEN JsonGot(Drop(s, 2), [t |-> "slice", v |-> <<>>])
       ELSE IF HasPrefix(s, <<"{", "}">>) THEN JsonGot(Drop(s, 2), [t |-> "map", v |-> <<>>])
       ELSE IF s # <<>> /\ s[1] = "\"" THEN
           IF str.ok THEN JsonGot(str.rest, [t |-> "string", v |-> str.val]) ELSE JsonFail
       ELSE jsonNumber(s)

\* the members of an object after its {, a later key replacing an equal earlier one
RECURSIVE jsonMembers(_, _)
jsonMembers(s, m) ==
    LET k == jsonString(jsonSkip(s))
        c == jsonSkip(k.rest)
        v == jsonValue(jsonSkip(Tail(c)))
        e == jsonSkip(v.rest)
        m1 == [x \in DOMAIN m \cup {k.val} |-> IF x = k.val THEN v.val ELSE m[x]]
    IN IF ~k.ok \/ c = <<>> \/ c[1] # ":" THEN JsonFail
       ELSE IF ~v.ok \/ e = <<>> THEN JsonFail
       ELSE IF e[1] = "}" THEN JsonGot(Tail(e), m1)
       ELSE IF e[1] = "," THEN jsonMembers(Tail(e), m1)
       ELSE JsonFail

jsonUnmarshal(s) ==
    LET a == jsonSkip(s)
        b == jsonSkip(Tail(a))
        empty == [x \in {} |-> <<>>]
        r == IF b # <<>> /\ b[1] = "}" THEN JsonGot(Tail(b), empty)
             ELSE jsonMembers(b, empty)
    IN IF a = <<>> \/ a[1] # "{" THEN JsonFail
       ELSE IF r.ok /\ jsonSkip(r.rest) = <<>> THEN r
       ELSE JsonFail

\* the type switch without its case nil: null falls to the default case
jsonvarNullEmpty(k, rawv) ==
    IF rawv.t = "string" THEN envvar(k, rawv.v, FALSE, FALSE)
    ELSE envvar(k, <<>>, FALSE, FALSE)

\* the type switch of parseJsonMap on one decoded value
jsonvar(k, rawv) ==
    IF rawv.t = "nil" THEN envvar(k, <<>>, FALSE, TRUE)
    ELSE IF rawv.t = "string" THEN envvar(k, rawv.v, FALSE, FALSE)
    ELSE IF rawv.t = "int" THEN envvar(k, <<[rune |-> rawv.v]>>, FALSE, FALSE)
    ELSE envvar(k, <<>>, FALSE, FALSE)

\* the orders in which a range over a map with keys K may visit them
KeyOrders(K) ==
    {o \in [1..Cardinality(K) -> K] : \A a, b \in 1..Cardinality(K) : a # b => o[a] # o[b]}

\* parseJsonMap: every result the range over the decoded map may give
parseJsonMap(src) ==
    LET r == jsonUnmarshal(src.data)
    IN IF ~r.ok THEN {ParseErr}
       ELSE {ParseOk([n \in 1..Len(o) |-> jsonvar(o[n], r.val[o[n]])]) :
                o \in KeyOrders(DOMAIN r.val)}

\* strconv.ParseUint(s, 10, 32): n is the number in decimal, as %d prints it
MaxUint32 == Str("4294967295")
ParseUint(s) ==
    LET z == RunLen(s, {"0"})
        n == IF z = Len(s) THEN <<"0">> ELSE Drop(s, z)
    IN IF s = <<>> \/ RunLen(s, Digit) # Len(s) THEN [ok |-> FALSE, n |-> <<>>]
       ELSE IF Len(n) > 10 \/ (Len(n) = 10 /\ strless(MaxUint32, n))
       THEN [ok |-> FALSE, n |-> <<>>]
       ELSE [ok |-> TRUE, n |-> n]

RECURSIVE envrecords(_, _)
envrecords(recs, alnum) ==
    IF recs = <<>> THEN <<>>
    ELSE (IF matcher(alnum, Head(recs)) THEN <<parsevar(Head(recs))>> ELSE <<>>)
            \o envrecords(Tail(recs), alnum)

sudoenv == TRUE

\* readenv: /proc/<p>/environ, read directly ("ok") or, when that fails and the
\* caller is not root, through sudo cat ("sudo")
readenv(p, pr, alnum) ==
    LET direct == p \in DOMAIN pr.table /\ pr.table[p].mode = "ok"
        bysudo == p \in DOMAIN pr.table /\ pr.table[p].mode = "sudo"
    IN IF ~pr.mounted THEN ParseErr
       ELSE IF ~direct /\ (pr.euid <= 0 \/ ~sudoenv) THEN ParseErr
       ELSE IF ~direct /\ ~bysudo THEN ParseErr
       ELSE ParseOk(envrecords(SplitN(pr.table[p].data, NUL, -1), alnum))

PCHAR == Str("p")
PIDWORD == Str("pid")

RECURSIVE keepIncluded(_, _)
keepIncluded(vs, include) ==
    IF vs = <<>> THEN <<>>
    ELSE (IF include # {} /\ Head(vs).name \notin include THEN <<>> ELSE <<Head(vs)>>)
            \o keepIncluded(Tail(vs), include)

parseFromPid(src, pr, alnum) ==
    LET parts == SplitN(src.data, ":", 3)
        names0 == parts[3]
        custom == Len(names0) > 1 /\ names0[2] = ":"
        sep == IF custom THEN names0[1] ELSE ","
        names == IF custom THEN Drop(names0, 2) ELSE names0
        split == SplitN(names, sep, -1)
        include == IF Len(parts) = 3 THEN {split[k] : k \in 1..Len(split)} ELSE {}
        p == ParseUint(parts[2])
        allvars == readenv(p.n, pr, alnum)
    IN IF Len(parts) < 2 THEN ParseErr
       ELSE IF parts[1] # PCHAR /\ parts[1] # PIDWORD THEN ParseErr
       ELSE IF ~p.ok THEN ParseErr
       ELSE IF allvars.err THEN ParseErr
       ELSE ParseOk(keepIncluded(allvars.vars, include))

\* varsource.parse: every result the parse of src may give
parse(src, env, fs, pr, alnum) ==
    IF src.kind = file THEN {parseFile(src, fs, alnum)}
    ELSE IF src.kind = shell THEN {parseShell(src, fs)}
    ELSE IF src.kind = laxfile THEN {parseLax(src, fs)}
    ELSE IF src.kind = raw THEN {ParseOk(<<parsevar(src.data)>>)}
    ELSE IF src.kind = osenv THEN {parseOsEnviron(env)}
    ELSE IF src.kind = jsonmap THEN parseJsonMap(src)
    ELSE IF src.kind = pid THEN {parseFromPid(src, pr, alnum)}
    ELSE {ParseErr}

-----------------------------------------------------------------------------
(* substitutevars.                                                         *)

tointerp == "tointerp"
anyinterp == "anyinterp"

\* [A-Za-z0-9_.]
BareRefChar == Upper \cup Lower \cup Digit \cup {"_", "."}

\* \{([^}]+)\} at the front of s
bracedRef(s) ==
    LET k == IndexByte(s, "}")
    IN IF s # <<>> /\ s[1] = "{" /\ k > 2 THEN Match(k, SubSeq(s, 2, k - 1)) ELSE NoMatch

\* refAt whose callback reads the second group only: a braced name is lost
refAtBareName(s, vm) ==
    LET b == bracedRef(Tail(s))
        n == RunLen(Tail(s), BareRefChar)
    IN IF s = <<>> \/ s[1] # "$" THEN NoMatch
       ELSE IF b.ok THEN Match(1 + b.len, <<>>)
       ELSE IF vm = anyinterp /\ n >= 1 THEN Match(1 + n, SubSeq(s, 2, 1 + n))
       ELSE NoMatch

\* varmatch at the front of s: tointerp is \$\{([^}]+)\}, anyinterp is
\* \$(?:\{([^}]+)\}|([A-Za-z0-9_.]+)); cap is the name the callback looks up
refAt(s, vm) ==
    LET b == bracedRef(Tail(s))
        n == RunLen(Tail(s), BareRefChar)
    IN IF s = <<>> \/ s[1] # "$" THEN NoMatch
       ELSE IF b.ok THEN Match(1 + b.len, b.cap)
       ELSE IF vm = anyinterp /\ n >= 1 THEN Match(1 + n, SubSeq(s, 2, 1 + n))
       ELSE NoMatch

\* the replacement whose callback gives back the match when vals lacks the name
RECURSIVE replaceRefsKeepUnknown(_, _, _)
replaceRefsKeepUnknown(s, vm, vals) ==
    LET m == refAt(s, vm)
    IN IF s = <<>> THEN <<>>
       ELSE IF m.ok THEN
           (IF m.cap \in DOMAIN vals THEN vals[m.cap] ELSE Take(s, m.len))
               \o replaceRefsKeepUnknown(Drop(s, m.len), vm, vals)
       ELSE <<s[1]>> \o replaceRefsKeepUnknown(Tail(s), vm, vals)

\* the replacement that goes on scanning at the front of the text it put in
RECURSIVE replaceRefsRescan(_, _, _)
replaceRefsRescan(s, vm, vals) ==
    LET m == refAt(s, vm)
    IN IF s = <<>> THEN <<>>
       ELSE IF m.ok THEN
           replaceRefsRescan((IF m.cap \in DOMAIN vals THEN vals[m.cap] ELSE <<>>)
                                \o Drop(s, m.len), vm, vals)
       ELSE <<s[1]>> \o replaceRefsRescan(Tail(s), vm, vals)

\* varmatch.ReplaceAllStringFunc(s, ...): each reference gives way to its value in
\* vals, or to nothing when vals does not hold its name
RECURSIVE replaceRefs(_, _, _)
replaceRefs(s, vm, vals) ==
    LET m == refAt(s, vm)
    IN IF s = <<>> THEN <<>>
       ELSE IF m.ok THEN
           (IF m.cap \in DOMAIN vals THEN vals[m.cap] ELSE <<>>)
               \o replaceRefs(Drop(s, m.len), vm, vals)
       ELSE <<s[1]>> \o replaceRefs(Tail(s), vm, vals)

setval(vals, k, v) == [x \in DOMAIN vals \cup {k} |-> IF x = k THEN v ELSE vals[x]]

\* vals[v.name] = v.val for each v of vs, in order
RECURSIVE setvals(_, _)
setvals(vals, vs) ==
    IF vs = <<>> THEN vals ELSE setvals(setval(vals, Head(vs).name, Head(vs).val), Tail(vs))

\* the first loop without the test against the default of the kind
applylevelAlways(src, rawvars) ==
    [k \in 1..Len(rawvars) |-> [rawvars[k] EXCEPT !.allowsubs = (getsublevel(src) # neversub)]]

\* the first loop of substitutevars: a level other than the kind's default
\* overrides what the parser said of each assignment
applylevel(src, rawvars) ==
    LET level == getsublevel(src)
    IN IF level # defaultsub(src.kind)
       THEN [k \in 1..Len(rawvars) |-> [rawvars[k] EXCEPT !.allowsubs = (level # neversub)]]
       ELSE rawvars

\* the last loop without vals[r.name] = subbed
subloopFixedTable(rawvars, vm, vals) ==
    [k \in 1..Len(rawvars) |->
        envvar(rawvars[k].name,
               IF rawvars[k].allowsubs THEN replaceRefs(rawvars[k].val, vm, vals)
               ELSE rawvars[k].val,
               rawvars[k].allowsubs, rawvars[k].tombstone)]

\* the last loop of substitutevars
RECURSIVE subloop(_, _, _)
subloop(rawvars, vm, vals) ==
    IF rawvars = <<>> THEN <<>>
    ELSE LET r == Head(rawvars)
             subbed == IF r.allowsubs THEN replaceRefs(r.val, vm, vals) ELSE r.val
         IN <<envvar(r.name, subbed, r.allowsubs, r.tombstone)>>
                \o subloop(Tail(rawvars), vm, setval(vals, r.name, subbed))

\* substitutevars without the loop over os.Environ()
substitutevarsNoEnviron(src, osenviron, env, rawvars, vm) ==
    subloop(applylevel(src, rawvars), vm, setvals([x \in {} |-> <<>>], env))

substitutevars(src, osenviron, env, rawvars, vm) ==
    LET none == [x \in {} |-> <<>>]
        vals == setvals(setvals(none, mapvars(osenviron)), env)
    IN subloop(applylevel(src, rawvars), vm, vals)

-----------------------------------------------------------------------------
(* bypriority(sources).sort() and uniqVarsByName.                          *)

\* Less that looks at the place on the command line only
LessByPos(a, b) == a.pos < b.pos

\* prioritysort.Less on two elements [source, pos]
Less(a, b) ==
    LET ra == rank(a.source.kind)
        rb == rank(b.source.kind)
    IN IF ra # rb THEN ra < rb ELSE a.pos < b.pos

Swap(ps, m, n) == [ps EXCEPT ![m] = ps[n], ![n] = ps[m]]

\* sort.Sort on fewer than 13 elements: a pass with gap 6, then an insertion sort
RECURSIVE shellPass(_, _)
shellPass(ps, m) ==
    IF m > Len(ps) THEN ps
    ELSE shellPass(IF Less(ps[m], ps[m - 6]) THEN Swap(ps, m, m - 6) ELSE ps, m + 1)

RECURSIVE sink(_, _)
sink(ps, n) ==
    IF n > 1 /\ Less(ps[n], ps[n - 1]) THEN sink(Swap(ps, n, n - 1), n - 1) ELSE ps

RECURSIVE insertionSort(_, _)
insertionSort(ps, m) ==
    IF m > Len(ps) THEN ps ELSE insertionSort(sink(ps, m), m + 1)

bypriority(srcs) == [k \in 1..Len(srcs) |-> [source |-> srcs[k], pos |-> k - 1]]

prioritysorted(srcs) ==
    LET ps == insertionSort(shellPass(bypriority(srcs), 7), 2)
    IN [k \in 1..Len(ps) |-> ps[k].source]

\* uniqVarsByName that lets every assignment through
uniqKeepAll(allvars) == allvars

\* uniqVarsByName without the tombstone branch: the first of a name is kept
uniqFirstOnly(allvars) ==
    LET marked == [k \in 1..Len(allvars) |->
                      [v |-> allvars[k],
                       first |-> \A j \in 1..(k - 1) : allvars[j].name # allvars[k].name]]
        firsts == SelectSeq(marked, LAMBDA e : e.first)
    IN [k \in 1..Len(firsts) |-> firsts[k].v]

\* uniqVarsByName where every later assignment of a name takes the place of
\* the one kept, tombstone or not
uniqLastWins(allvars) ==
    LET firsts == {k \in DOMAIN allvars : \A j \in 1..(k - 1) : allvars[j].name # allvars[k].name}
        last(k) == CHOOSE j \in DOMAIN allvars :
                      /\ allvars[j].name = allvars[k].name
                      /\ \A i \in (j + 1)..Len(allvars) : allvars[i].name # allvars[k].name
    IN [n \in 1..Cardinality(firsts) |->
          allvars[last(CHOOSE k \in firsts : Cardinality({j \in firsts : j < k}) = n - 1)]]

\* the loop of uniqVarsByName; varindex maps a name to its place in uniq
RECURSIVE uniqLoop(_, _, _)
uniqLoop(allvars, uniq, varindex) ==
    IF allvars = <<>> THEN uniq
    ELSE LET v == Head(allvars)
             seen == v.name \in DOMAIN varindex
         IN IF ~seen
            THEN uniqLoop(Tail(allvars), Append(uniq, v), setval(varindex, v.name, Len(uniq) + 1))
            ELSE IF v.tombstone
            THEN uniqLoop(Tail(allvars), [uniq EXCEPT ![varindex[v.name]] = v], varindex)
            ELSE uniqLoop(Tail(allvars), uniq, varindex)

uniqVarsByName(allvars) == uniqLoop(allvars, <<>>, [x \in {} |-> 0])

\* the loop of main that keeps what is no tombstone
setvars(vs) == SelectSeq(vs, LAMBDA v : ~v.tombstone)

-----------------------------------------------------------------------------
(* main: the command line.                                                 *)

runcmd == "runcmd"
dump   == "dump"
names  == "names"
values == "values"

textoutput   == "text"
jsonoutput   == "json"
nuloutput    == "nul"
base64output == "base64"
rawoutput    == "raw"

\* the options of main and the branch of its chain each one takes
Options(S, b) == [x \in {Str(o) : o \in S} |-> b]
OptionBranch ==
    Options({"-h", "-help"}, "help") @@
    Options({"-f"}, "fileflag") @@
    Options({"-o", "-dump"}, "dump") @@
    Options({"-n", "-names"}, "names") @@
    Options({"-p", "-vals"}, "values") @@
    Options({"-s", "-shell"}, "shell") @@
    Options({"-x", "-strict"}, "strict") @@
    Options({"-a", "-strict-vars"}, "alphanumeric") @@
    Options({"-no-sort", "-unsorted"}, "nosort") @@
    Options({"-sort", "-sorted"}, "sort") @@
    Options({"-q", "-quiet"}, "quiet") @@
    Options({"-0", "-z", "-nul", "-null"}, "nul") @@
    Options({"-j", "-json"}, "json") @@
    Options({"-b", "-b64", "-base64"}, "base64") @@
    Options({"-r", "-raw"}, "rawout") @@
    Options({"-u", "-clear"}, "clear") @@
    Options({"-sub", "-interpolate"}, "sub") @@
    Options({"-no-sub", "-no-interpolate"}, "nosub") @@
    Options({"-force-sub", "-force-interpolate"}, "forcesub") @@
    Options({"-reset-sub", "-reset-interpolate"}, "resetsub") @@
    Options({"-A", "-interpolate-any"}, "any") @@
    Options({"-S", "-interpolate-strict"}, "strictinterp")
\* the options tested before "-u", where the lone dash is tested too
BeforeClear ==
    {"help", "fileflag", "dump", "names", "values", "shell", "strict", "alphanumeric",
     "nosort", "sort", "quiet", "nul", "json", "base64", "rawout"}
DASH == Str("-")
DASHDASH == Str("--")
LBRACE == Str("{")
RBRACE == Str("}")
PCOLON == Str("p:")
PIDCOLON == Str("pid:")

\* the branch of the option chain of main that takes the argument: orig as given,
\* arg with one dash of a leading -- removed
argbranch(orig, arg, split) ==
    IF arg \in DOMAIN OptionBranch /\ OptionBranch[arg] \in BeforeClear THEN OptionBranch[arg]
    ELSE IF orig = DASH THEN "clear"
    ELSE IF arg \in DOMAIN OptionBranch THEN OptionBranch[arg]
    ELSE IF assignment(arg) THEN "raw"
    ELSE IF HasPrefix(arg, LBRACE) /\ HasSuffix(arg, RBRACE) THEN "jsonmap"
    ELSE IF HasPrefix(arg, PCOLON) \/ HasPrefix(arg, PIDCOLON) THEN "pid"
    ELSE IF split THEN "presplit"
    ELSE "attempt"

\* the branches that end in the append to sources
SourceBranches == {"fileflag", "raw", "jsonmap", "pid", "presplit", "attempt"}

\* the loop of setDefaultType without the test of the kind
retypeAll(srcs, t) == [k \in 1..Len(srcs) |-> [srcs[k] EXCEPT !.kind = t]]

\* the loop of setDefaultType
retype(srcs, t) ==
    [k \in 1..Len(srcs) |-> IF srcs[k].kind = notype THEN [srcs[k] EXCEPT !.kind = t] ELSE srcs[k]]

\* the level flags without the branch of -reset-sub
sublevelflagNoReset(b, level) ==
    IF b = "sub" THEN maybesub
    ELSE IF b = "nosub" THEN neversub
    ELSE IF b = "forcesub" THEN forcesub
    ELSE level

\* main, lines 775-786: defaultSublevel after the branch b of the option chain
sublevelflag(b, level) ==
    IF b = "sub" THEN maybesub
    ELSE IF b = "nosub" THEN neversub
    ELSE IF b = "forcesub" THEN forcesub
    ELSE IF b = "resetsub" THEN nosublevel
    ELSE level

InitMain ==
    /\ pc = "split"
    /\ args = osArgs
    /\ cmd = <<>>
    /\ doSplit = FALSE
    /\ sources = <<>>
    /\ defaultType = laxfile
    /\ specifiedDefault = FALSE
    /\ defaultSublevel = nosublevel
    /\ varmatch = anyinterp
    /\ sorted = TRUE
    /\ clearEnv = FALSE
    /\ mode = runcmd
    /\ modeset = FALSE
    /\ outmode = textoutput
    /\ alphanumeric = FALSE
    /\ warn = TRUE
    /\ presort = <<>>
    /\ loopi = 1
    /\ vars = <<>>
    /\ premerge = <<>>
    /\ parselog = <<>>
    /\ output = [kind |-> "none"]

\* main, lines 678-687: what follows the first -- is the command
Split ==
    /\ pc = "split"
    /\ LET k == IndexByte(args, DASHDASH)
       IN /\ doSplit' = (k # 0)
          /\ args' = IF k # 0 THEN Take(args, k - 1) ELSE args
          /\ cmd' = IF k # 0 THEN Drop(args, k) ELSE cmd
    /\ pc' = "args"
    /\ UNCHANGED <<worldVars, flagVars, sources, presort, loopi, vars, premerge,
                   parselog, output>>

\* main, lines 710-811: one round of the loop over the arguments
ClassifyArg ==
    /\ pc = "args"
    /\ args # <<>>
    /\ LET orig == Head(args)
           rest == Tail(args)
           arg == IF HasPrefix(orig, DASHDASH) THEN Tail(orig) ELSE orig
           b == argbranch(orig, arg, doSplit)
           nofile == b = "fileflag" /\ rest = <<>>
           source == [data |-> IF b = "fileflag" THEN rest[1] ELSE orig,
                      kind |-> IF b \in {"raw", "jsonmap", "pid"} THEN b
                               ELSE IF specifiedDefault THEN defaultType ELSE notype,
                      explicit |-> b \in {"fileflag", "presplit"},
                      optional |-> FALSE,
                      sublevel |-> defaultSublevel]
       IN /\ pc' = IF b = "help" THEN "exit" ELSE IF nofile THEN "fatal" ELSE "args"
          /\ args' = IF b = "help" \/ nofile THEN args
                     ELSE IF b = "fileflag" THEN Tail(rest) ELSE rest
          /\ sources' = IF b \in SourceBranches /\ ~nofile THEN Append(sources, source)
                        ELSE IF b = "shell" THEN retype(sources, shell)
                        ELSE IF b = "strict" THEN retype(sources, file)
                        ELSE sources
          /\ defaultType' = IF b = "shell" THEN shell
                            ELSE IF b = "strict" THEN file ELSE defaultType
          /\ specifiedDefault' = (specifiedDefault \/ b \in {"shell", "strict"})
          /\ mode' = IF b \in {"dump", "names", "values"} THEN b ELSE mode
          /\ modeset' = (modeset \/ b \in {"dump", "names", "values"})
          /\ alphanumeric' = (alphanumeric \/ b = "alphanumeric")
          /\ sorted' = IF b = "nosort" THEN TRUE ELSE IF b = "sort" THEN FALSE ELSE sorted
          /\ warn' = (warn /\ b # "quiet")
          /\ outmode' = IF b = "nul" THEN nuloutput
                        ELSE IF b = "json" THEN jsonoutput
                        ELSE IF b = "base64" THEN base64output
                        ELSE IF b = "rawout" THEN rawoutput ELSE outmode
          /\ clearEnv' = (clearEnv \/ b = "clear")
          /\ defaultSublevel' = sublevelflag(b, defaultSublevel)
          /\ varmatch' = IF b = "any" THEN anyinterp
                         ELSE IF b = "strictinterp" THEN tointerp ELSE varmatch
    /\ UNCHANGED <<worldVars, cmd, doSplit, presort, loopi, vars, premerge, parselog, output>>

\* main, lines 813-830: the default type, the implicit osenv source, the sort
Prepare ==
    /\ pc = "args"
    /\ args = <<>>
    /\ mode' = IF ~modeset /\ outmode # textoutput THEN dump ELSE mode
    /\ specifiedDefault' = TRUE
    /\ LET typed == retype(sources, defaultType)
           all == IF ~clearEnv
                  THEN <<varsource(<<>>, osenv, FALSE, FALSE, nosublevel)>> \o typed
                  ELSE typed
       IN /\ presort' = all
          /\ sources' = prioritysorted(all)
          /\ pc' = IF all = <<>> THEN "merge" ELSE "parse"
    /\ UNCHANGED <<worldVars, args, cmd, doSplit, defaultType, defaultSublevel, varmatch,
                   sorted, clearEnv, modeset, outmode, alphanumeric, warn,
                   loopi, vars, premerge, parselog, output>>

-----------------------------------------------------------------------------
(* main: the loop over the sorted sources, the merge, the output.          *)

\* the handling of a failure that does not look at explicit
onparseLenient(source, err) ==
    IF err /\ ~source.optional THEN "cmd" ELSE "continue"

\* sources[i+1:] in the place of sources[i:]
precmdAfter(srcs, n) == [k \in 1..(Len(srcs) - n) |-> srcs[n + k].data]

\* what main does with the result of source.parse(), lines 836-852
onparse(source, err) ==
    IF err /\ source.explicit THEN "fatal"
    ELSE IF err /\ ~source.optional THEN "cmd"
    ELSE "continue"

\* lines 842-845: the data of the failing source and of those after it
RECURSIVE precmd(_, _)
precmd(srcs, n) ==
    IF n > Len(srcs) THEN <<>> ELSE <<srcs[n].data>> \o precmd(srcs, n + 1)

\* main, lines 834-855: one round of the loop over the sources
ParseSource ==
    /\ pc = "parse"
    /\ loopi <= Len(sources)
    /\ \E res \in parse(sources[loopi], environ, files, procs, alphanumeric) :
        LET source == sources[loopi]
            what == onparse(source, res.err)
            parsed == substitutevars(source, environ, vars, res.vars, varmatch)
        IN /\ pc' = IF what = "fatal" THEN "fatal"
                    ELSE IF what = "cmd" \/ loopi = Len(sources) THEN "merge"
                    ELSE "parse"
           /\ cmd' = IF what = "cmd" THEN precmd(sources, loopi) \o cmd ELSE cmd
           /\ vars' = IF what = "continue" THEN vars \o parsed ELSE vars
           /\ loopi' = IF what = "continue" THEN loopi + 1 ELSE loopi
           /\ parselog' = Append(parselog,
                    [idx |-> loopi, source |-> source, err |-> res.err, what |-> what,
                     raw |-> res.vars, env |-> vars,
                     parsed |-> IF what = "continue" THEN parsed ELSE <<>>])
    /\ UNCHANGED <<worldVars, flagVars, args, doSplit, sources, presort, premerge, output>>

SH == Str("sh")

\* main, lines 857-869: one assignment per name, no tombstone, a default command
Merge ==
    /\ pc = "merge"
    /\ premerge' = vars
    /\ vars' = setvars(uniqVarsByName(vars))
    /\ cmd' = IF cmd = <<>> THEN <<SH>> ELSE cmd
    /\ pc' = "emit"
    /\ UNCHANGED <<worldVars, flagVars, args, doSplit, sources, presort, loopi,
                   parselog, output>>

\* sort.Strings
RECURSIVE insertString(_, _)
insertString(ss, x) ==
    IF ss = <<>> THEN <<x>>
    ELSE IF strless(x, Head(ss)) THEN <<x>> \o ss
    ELSE <<Head(ss)>> \o insertString(Tail(ss), x)
RECURSIVE sortStrings(_)
sortStrings(ss) ==
    IF ss = <<>> THEN <<>> ELSE insertString(sortStrings(Tail(ss)), Head(ss))

\* os.Getenv
RECURSIVE Getenv(_, _)
Getenv(env, key) ==
    IF env = <<>> THEN <<>>
    ELSE IF HasPrefix(Head(env), key \o <<"=">>) THEN Drop(Head(env), Len(key) + 1)
    ELSE Getenv(Tail(env), key)

\* lines 881-900: the assignments of the keys asked for, from vars or the environment
RECURSIVE valuesOf(_, _, _)
valuesOf(keys, vs, env) ==
    IF keys = <<>> THEN <<>>
    ELSE LET key == Head(keys)
             found == SelectSeq(vs, LAMBDA v : v.name = key)
             val == Getenv(env, key)
         IN (IF found # <<>> THEN found
             ELSE IF val # <<>> THEN <<parsevar(val)>>
             ELSE <<>>) \o valuesOf(Tail(keys), vs, env)

\* lines 897-899: the keys logged as "Variable not set by dotenv"
notset(keys, vs, env) ==
    SelectSeq(keys, LAMBDA key :
        /\ \A k \in DOMAIN vs : vs[k].name # key
        /\ Getenv(env, key) = <<>>)

\* lines 906-919: by name, each name with the last assignment that has it
sorteddump(toDump) ==
    LET dumpnames == sortStrings([k \in 1..Len(toDump) |-> toDump[k].name])
        byname(n) == toDump[MaxOf({k \in 1..Len(toDump) : toDump[k].name = n})]
    IN [k \in 1..Len(dumpnames) |-> byname(dumpnames[k])]

\* line 985: the environment of the command
procEnv(vs) == [k \in 1..Len(vs) |-> vs[k].name \o <<"=">> \o vs[k].val]

\* main, lines 876-998: the dump, or the launch of the command
Emit ==
    /\ pc = "emit"
    /\ LET toDump == IF mode = values THEN valuesOf(cmd, vars, environ) ELSE vars
       IN output' = IF mode = runcmd
                    THEN [kind |-> "launch", cmd |-> cmd, env |-> procEnv(vars)]
                    ELSE [kind |-> "dump", mode |-> mode, outmode |-> outmode,
                          vars |-> IF sorted THEN sorteddump(toDump) ELSE toDump,
                          log |-> IF mode = values THEN notset(cmd, vars, environ)
                                  ELSE <<>>]
    /\ pc' = "done"
    /\ UNCHANGED <<worldVars, flagVars, args, cmd, doSplit, sources, presort, loopi,
                   vars, premerge, parselog>>

-----------------------------------------------------------------------------
(* The runs checked: every command line of at most MaxArgs arguments out   *)
(* of MainArgs, in a fixed environment.                                     *)

MaxArgs == 3

\* a NUL-separated environ file
Records(rs) == IF rs = <<>> THEN <<>> ELSE Head(rs) \o Concat([k \in 1..Len(rs) - 1 |-> <<NUL>> \o rs[k + 1]])

\* the text of a file with the given lines
Text(lines) == Concat([k \in 1..Len(lines) |-> lines[k] \o <<"\n">>])

MainEnviron == <<Str("A=e"), Str("B=b"), Str("H=h")>>

MainFiles ==
    (Str("f") :> Text(<<Str("A=2"), Str("B=$A"), Str("A=3")>>)) @@
    (Str("q") :> Text(<<Str("C=1"), Str("D=") \o <<"\"">> \o Str("x")>>))

MainProcs ==
    [mounted |-> TRUE, euid |-> 1000,
     table |-> (Str("1") :> [mode |-> "ok", data |-> Records(<<Str("A=p"), Str("P=1")>>)])]

JsonNullA == Str("{") \o <<"\"">> \o Str("A") \o <<"\"">> \o Str(":null}")

MainArgs ==
    {Str("A=1"), JsonNullA, Str("{A}"), Str("p:1"), Str("p:9"),
     Str("f"), Str("q"), Str("m"),
     Str("-f"), Str("--"), Str("-s"), Str("-x"), Str("-u"), Str("-o"), Str("--sort")}

Init ==
    /\ environ = MainEnviron
    /\ files = MainFiles
    /\ procs = MainProcs
    /\ osArgs \in SeqUpTo(MainArgs, MaxArgs)
    /\ InitMain

Next ==
    \/ Split
    \/ ClassifyArg
    \/ Prepare
    \/ ParseSource
    \/ Merge
    \/ Emit

Spec == Init /\ [][Next]_vars_all

-----------------------------------------------------------------------------
(* What the claims speak of.                                               *)

NameA == Str("A")
Merged == pc \in {"emit", "done"}
NamesOf(vs) == {vs[k].name : k \in DOMAIN vs}
FileKinds == {file, shell, laxfile}

\* the n-th element of s among those whose index is in K, in the order of s
Pick(s, K) ==
    [n \in 1..Cardinality(K) |-> s[CHOOSE k \in K : Cardinality({j \in K : j < k}) = n - 1]]

\* the command split off by the first --
AfterDashes(a) ==
    IF \E k \in DOMAIN a : a[k] = DASHDASH
    THEN Drop(a, MinOf({k \in DOMAIN a : a[k] = DASHDASH}))
    ELSE <<>>

\* the entries of st that are the first of their name, no tombstone, and have no
\* tombstone of their name after them
Survivors(st) ==
    {k \in DOMAIN st :
        /\ \A j \in 1..(k - 1) : st[j].name # st[k].name
        /\ ~st[k].tombstone
        /\ \A j \in (k + 1)..Len(st) : st[j].name = st[k].name => ~st[j].tombstone}

\* C1: what main hands to the dump or to the command after uniqVarsByName and the
\* removal of the tombstones holds no name twice and no tombstone.
C1_NoDuplicateNoTombstone ==
    Merged =>
        /\ \A a, b \in DOMAIN vars : a # b => vars[a].name # vars[b].name
        /\ \A a \in DOMAIN vars : ~vars[a].tombstone

C1_Witness ==
    /\ pc = "done"
    /\ vars # <<>>
    /\ \E a, b \in DOMAIN premerge : a < b /\ premerge[a].name = premerge[b].name
    /\ \E a \in DOMAIN premerge : premerge[a].tombstone

\* C2: the merge keeps, in the order of the stream, the first assignment of each
\* name; a later tombstone of the name takes its place, so that the name is absent
\* in the end; a later assignment that is no tombstone changes nothing.
C2_FirstWinsTombstoneReplaces ==
    Merged => vars = Pick(premerge, Survivors(premerge))

C2_Witness ==
    /\ pc = "done"
    /\ vars # <<>>
    /\ \E a, b, c \in DOMAIN premerge :
        /\ a < b /\ b < c
        /\ premerge[a].name = premerge[b].name /\ premerge[b].name = premerge[c].name
        /\ ~premerge[a].tombstone /\ premerge[b].tombstone /\ ~premerge[c].tombstone
    /\ \E a, b \in DOMAIN premerge :
        /\ a < b
        /\ premerge[a].name = premerge[b].name
        /\ premerge[a].val # premerge[b].val
        /\ premerge[a] \in {vars[k] : k \in DOMAIN vars}

\* the precedence bucket of each kind, as the claim lists them
Bucket(kind) ==
    CASE kind = raw -> 0
      [] kind = jsonmap -> 1
      [] kind = osenv -> 2
      [] kind \in {file, shell, laxfile} -> 3
      [] OTHER -> 4

\* the source at place a of the command line goes before the one at place b
Before(srcs, a, b) ==
    \/ Bucket(srcs[a].kind) < Bucket(srcs[b].kind)
    \/ Bucket(srcs[a].kind) = Bucket(srcs[b].kind) /\ a < b

\* C3: the sorted sources are the classified ones, each once, in ascending order
\* of (bucket of the kind, place on the command line).
C3_SortedByBucketThenPosition ==
    pc \in {"parse", "merge", "emit", "done"} =>
        /\ Len(sources) = Len(presort)
        /\ \A a \in DOMAIN presort :
            sources[1 + Cardinality({b \in DOMAIN presort : Before(presort, b, a)})]
                = presort[a]

C3_Witness ==
    /\ pc = "parse"
    /\ \E a, b, c \in DOMAIN presort :
        /\ a < b /\ b < c
        /\ presort[a].kind = pid /\ presort[b].kind = pid /\ presort[a] # presort[b]
        /\ presort[c].kind = raw
    /\ sources # presort

\* the text before and after the first = of a raw argument
RawName(d) == Take(d, IndexByte(d, "=") - 1)
RawValue(d) == Drop(d, IndexByte(d, "="))

\* C4: a name that a raw argument and a file of any kind both define, and that no
\* tombstone names, ends with the value of the (first) raw argument.
C4_RawBeatsFile ==
    Merged =>
        \A r, f \in DOMAIN presort :
            LET n == RawName(presort[r].data)
            IN (/\ presort[r].kind = raw
                /\ \A q \in 1..(r - 1) :
                    presort[q].kind = raw => RawName(presort[q].data) # n
                /\ presort[f].kind \in FileKinds
                /\ \E e \in DOMAIN parselog :
                    /\ parselog[e].source = presort[f]
                    /\ ~parselog[e].err
                    /\ n \in NamesOf(parselog[e].parsed)
                /\ \A k \in DOMAIN premerge : premerge[k].name = n => ~premerge[k].tombstone)
               => \E k \in DOMAIN vars :
                    vars[k].name = n /\ vars[k].val = RawValue(presort[r].data)

C4_Witness ==
    /\ pc = "done"
    /\ clearEnv
    /\ \E r, f \in DOMAIN presort :
        /\ f < r
        /\ presort[r].kind = raw /\ RawName(presort[r].data) = NameA
        /\ presort[f].kind \in FileKinds
        /\ \E e \in DOMAIN parselog :
            /\ parselog[e].source = presort[f] /\ ~parselog[e].err
            /\ NameA \in NamesOf(parselog[e].parsed)
        /\ \E k \in DOMAIN vars :
            vars[k].name = NameA /\ vars[k].val = RawValue(presort[r].data)

\* C5: when a JSON source that maps A to null was parsed and no raw argument
\* defines A, A is not in the final mapping, whatever the environment, the files
\* and the other processes say of A.
C5_JsonNullDeletes ==
    Merged =>
        ((/\ \E e \in DOMAIN parselog :
                parselog[e].source.data = JsonNullA /\ ~parselog[e].err
          /\ \A e \in DOMAIN parselog :
                parselog[e].source.kind = raw => RawName(parselog[e].source.data) # NameA)
         => NameA \notin NamesOf(vars))

C5_Witness ==
    /\ pc = "done"
    /\ NameA \notin NamesOf(vars)
    /\ \E e \in DOMAIN parselog : parselog[e].source.data = JsonNullA /\ ~parselog[e].err
    /\ \A kind \in {osenv, laxfile, pid} : \E e \in DOMAIN parselog :
        /\ parselog[e].source.kind = kind
        /\ \E k \in DOMAIN parselog[e].parsed :
            parselog[e].parsed[k].name = NameA /\ ~parselog[e].parsed[k].tombstone

\* the round of the source loop that turned the sources into the command
FellBack == parselog # <<>> /\ parselog[Len(parselog)].what = "cmd"

C7_ExplicitFailureAborts ==
    \A e \in DOMAIN parselog :
        (parselog[e].err /\ parselog[e].source.explicit) =>
            /\ pc = "fatal"
            /\ e = Len(parselog)
            /\ premerge = <<>>
            /\ output.kind = "none"
            /\ ~ENABLED Next

C7_Witness ==
    /\ pc = "fatal"
    /\ \E k \in DOMAIN osArgs : osArgs[k] = Str("-f")
    /\ Len(parselog) > 1
    /\ parselog[Len(parselog)].source.explicit
    /\ parselog[Len(parselog)].idx < Len(sources)
    /\ vars # <<>>

-----------------------------------------------------------------------------
(* Runs for the interpolation: one file g whose lines vary under a few     *)
(* command lines, and the command lines over the flags and the sources     *)
(* that carry references, with g fixed.                                    *)

MaxLines == 3

NameB == Str("B")
NameC == Str("C")
DQ == <<"\"">>
SQ == <<"'">>
RefA == Str("${A}")
AssignA == Str("A=")
dqLine(n, pre, post) == n \o Str("=") \o DQ \o pre \o RefA \o post \o DQ
sqLine(n, pre, post) == n \o Str("=") \o SQ \o pre \o RefA \o post \o SQ

\* the values of the plain lines A=v, and the texts around a reference
AVals == {Str("1"), Str("2")}
Plain == {<<>>, Str("x"), Str("z")}

SubLines ==
    {Str("A=1"), Str("A=2"), Str("B=$A"), Str("A=x${B}"),
     dqLine(NameB, <<>>, Str("z")), dqLine(NameC, Str("x"), <<>>),
     sqLine(NameC, <<>>, Str("z"))}

GFILE == Str("g")
SubPrefixes ==
    {<<>>, <<Str("-S")>>, <<Str("--sub")>>, <<Str("--no-sub")>>, <<Str("--force-sub")>>,
     <<Str("-S"), Str("--force-sub")>>, <<Str("-x")>>, <<Str("-x"), Str("--sub")>>,
     <<Str("-s")>>, <<Str("-s"), Str("--force-sub")>>}

JsonRefA == Str("{") \o DQ \o Str("B") \o DQ \o Str(":") \o DQ \o Str("$A") \o DQ \o Str("}")
SubArgs ==
    {Str("--sub"), Str("--no-sub"), Str("--force-sub"), Str("--reset-sub"), Str("-S"),
     Str("B=$A"), JsonRefA, Str("p:1"), GFILE, Str("-x"), Str("-s")}

SubFixedFile ==
    Text(<<Str("A=1"), dqLine(NameB, <<>>, Str("z")), sqLine(NameC, <<>>, Str("z"))>>)

SubProcs ==
    [mounted |-> TRUE, euid |-> 1000,
     table |-> (Str("1") :> [mode |-> "ok", data |-> Records(<<Str("A=p"), Str("P=$A")>>)])]

InitSub ==
    /\ environ = MainEnviron
    /\ procs = SubProcs
    /\ \/ /\ \E ls \in SeqUpTo(SubLines, MaxLines) : files = (GFILE :> Text(ls))
          /\ \E pre \in SubPrefixes : osArgs = pre \o <<GFILE>>
       \/ /\ files = (GFILE :> SubFixedFile)
          /\ osArgs \in SeqUpTo(SubArgs, MaxArgs)
    /\ InitMain

SpecSub == InitSub /\ [][Next]_vars_all

-----------------------------------------------------------------------------
(* The interpolation claims.                                               *)

\* the level in force for a source: its own, or the default of its kind
ResolvedLevel(src) ==
    IF src.sublevel # nosublevel THEN src.sublevel
    ELSE IF src.kind \in {shell, laxfile} THEN maybesub ELSE neversub

\* the table that the last assignment of each name in st makes
LastWins(st) ==
    [n \in NamesOf(st) |-> st[MaxOf({k \in DOMAIN st : st[k].name = n})].val]

\* the table from the environment and the sources before the one of log entry e
TableBefore(e) == LastWins(mapvars(environ) \o e.env)

\* the same, with the assignments of the batch itself that precede its k-th
TableAt(e, k) == LastWins(mapvars(environ) \o e.env \o Take(e.parsed, k - 1))

Continued == {parselog[k] : k \in {j \in DOMAIN parselog : parselog[j].what = "continue"}}

\* C8, as amended: a reference in the k-th assignment of a batch resolves against
\* the environment overlaid with the assignments of the sources before it and then
\* with the assignments 1..k-1 of the batch itself, with the values these got.
C8_TableIncludesOwnBatch ==
    \A e \in Continued :
        /\ Len(e.parsed) = Len(e.raw)
        /\ \A k \in DOMAIN e.parsed :
            e.parsed[k].allowsubs =>
                e.parsed[k].val = replaceRefs(e.raw[k].val, varmatch, TableAt(e, k))

\* C8, as stated: the references resolve against the environment and the strictly
\* earlier sources only; an earlier assignment of the same batch is not visible.
C8_TableEarlierSourcesOnly ==
    \A e \in Continued :
        \A k \in DOMAIN e.parsed :
            e.parsed[k].allowsubs =>
                e.parsed[k].val = replaceRefs(e.raw[k].val, varmatch, TableBefore(e))

C8_Witness ==
    /\ pc = "done"
    /\ \E e \in Continued : \E k \in DOMAIN e.parsed :
        /\ e.env # <<>>
        /\ e.parsed[k].allowsubs
        /\ e.parsed[k].val \in {vars[j].val : j \in DOMAIN vars}
        /\ e.parsed[k].val # e.raw[k].val
        /\ e.parsed[k].val # replaceRefs(e.raw[k].val, varmatch, TableBefore(e))

\* C9: in a lax file under the level maybe, with either pattern, when a line A=v
\* is followed (no other assignment of A between) by a line that gives B a
\* double-quoted value holding ${A}, B's value has v in the place of ${A}; a
\* single-quoted value is kept as written.
C9_LaxBracedReference ==
    \A e \in Continued :
        (/\ e.source.kind = laxfile
         /\ ResolvedLevel(e.source) = maybesub
         /\ varmatch \in {tointerp, anyinterp}
         /\ e.source.data \in DOMAIN files)
        => LET lines == ScanLines(files[e.source.data])
           IN \A i, j \in DOMAIN lines : \A v \in AVals : \A n \in {NameB, NameC} :
               \A pre, post \in Plain :
                (/\ i < j
                 /\ lines[i] = AssignA \o v
                 /\ \A m \in (i + 1)..(j - 1) : ~HasPrefix(lines[m], AssignA)
                 /\ \A m \in 1..j : lines[m] \in SubLines)
                => /\ Len(e.parsed) >= j
                   /\ lines[j] = dqLine(n, pre, post) =>
                        e.parsed[j].name = n /\ e.parsed[j].val = pre \o v \o post
                   /\ lines[j] = sqLine(n, pre, post) =>
                        e.parsed[j].name = n /\ e.parsed[j].val = pre \o RefA \o post

C9_Witness ==
    /\ pc = "done"
    /\ varmatch = tointerp
    /\ \E e \in Continued :
        /\ e.source.kind = laxfile
        /\ ScanLines(files[e.source.data]) =
                <<Str("A=2"), dqLine(NameB, <<>>, Str("z")), sqLine(NameC, <<>>, Str("z"))>>
        /\ \E j \in DOMAIN vars : vars[j].name = NameC /\ vars[j].val = Str("${A}z")
        /\ \E j \in DOMAIN e.parsed : e.parsed[j].name = NameB /\ e.parsed[j].val = Str("2z")

\* C10, as amended: never makes every assignment of the batch ineligible and
\* forced makes every one eligible; maybe leaves the parser's flags as they are
\* for the kinds whose default it is (shell, lax) and makes every assignment
\* eligible for the other kinds, whose parsers all mark theirs ineligible. An
\* ineligible assignment keeps its value.
C10_LevelOnBatch ==
    \A e \in Continued :
        /\ Len(e.parsed) = Len(e.raw)
        /\ \A k \in DOMAIN e.parsed :
            LET level == ResolvedLevel(e.source)
                defaultmaybe == e.source.kind \in {shell, laxfile}
            IN /\ level = neversub => ~e.parsed[k].allowsubs
               /\ level = forcesub => e.parsed[k].allowsubs
               /\ (level = maybesub /\ defaultmaybe) =>
                    e.parsed[k].allowsubs = e.raw[k].allowsubs
               /\ (level = maybesub /\ ~defaultmaybe) => e.parsed[k].allowsubs
               /\ ~defaultmaybe => ~e.raw[k].allowsubs
               /\ ~e.parsed[k].allowsubs => e.parsed[k].val = e.raw[k].val

\* C10, as stated: under maybe every kind keeps the flags of its parser, so that
\* what a raw, file, environment, JSON or process source assigns is not
\* interpolated.
C10_MaybeKeepsParserFlags ==
    \A e \in Continued :
        \A k \in DOMAIN e.parsed :
            ResolvedLevel(e.source) = maybesub =>
                /\ e.parsed[k].allowsubs = e.raw[k].allowsubs
                /\ e.source.kind \notin {shell, laxfile} => e.parsed[k].val = e.raw[k].val

C10_Witness ==
    /\ pc = "done"
    /\ \E e \in Continued : \E k \in DOMAIN e.parsed :
        /\ e.source.kind = raw
        /\ e.source.sublevel = maybesub
        /\ e.parsed[k].val # e.raw[k].val
    /\ \E e \in Continued : \E k \in DOMAIN e.parsed :
        /\ e.source.kind = laxfile
        /\ e.source.sublevel = maybesub
        /\ ~e.parsed[k].allowsubs

\* the lax sources of the log whose file holds lines of SubLines only, so that
\* the j-th assignment of the batch is that of the j-th line
LaxOfSubLines ==
    {e \in Continued :
        /\ e.source.kind = laxfile
        /\ e.source.data \in DOMAIN files
        /\ \A j \in DOMAIN ScanLines(files[e.source.data]) :
            ScanLines(files[e.source.data])[j] \in SubLines}

\* C11, as amended: a single-quoted value of a lax file keeps its references
\* under the levels never and maybe; under the level forced it is interpolated
\* like any other value.
C11_SingleQuoteUnlessForced ==
    \A e \in LaxOfSubLines :
        LET lines == ScanLines(files[e.source.data])
        IN /\ Len(e.parsed) = Len(lines)
           /\ \A j \in DOMAIN lines : \A n \in {NameB, NameC} : \A pre, post \in Plain :
                lines[j] = sqLine(n, pre, post) =>
                    /\ e.parsed[j].name = n
                    /\ ResolvedLevel(e.source) # forcesub =>
                        e.parsed[j].val = pre \o RefA \o post
                    /\ ResolvedLevel(e.source) = forcesub =>
                        /\ NameA \in DOMAIN TableAt(e, j)
                        /\ e.parsed[j].val = pre \o TableAt(e, j)[NameA] \o post

\* C11, as stated: a single-quoted value of a lax file keeps its references under
\* every level, forced included.
C11_SingleQuoteAlwaysLiteral ==
    \A e \in LaxOfSubLines :
        LET lines == ScanLines(files[e.source.data])
        IN \A j \in DOMAIN lines : \A n \in {NameB, NameC} : \A pre, post \in Plain :
            (lines[j] = sqLine(n, pre, post) /\ j <= Len(e.parsed)) =>
                e.parsed[j].val = pre \o RefA \o post

C11_Witness ==
    /\ pc = "done"
    /\ \E e \in LaxOfSubLines : \E j \in DOMAIN e.parsed :
        /\ e.source.sublevel = forcesub
        /\ ScanLines(files[e.source.data])[j] = sqLine(NameC, <<>>, Str("z"))
        /\ j > 1
        /\ e.parsed[j - 1].name = NameA
        /\ e.parsed[j].val = e.parsed[j - 1].val \o Str("z")
        /\ e.parsed[j] \in {vars[k] : k \in DOMAIN vars}

\* the arguments before the first --
BeforeDashes(a) ==
    IF \E k \in DOMAIN a : a[k] = DASHDASH
    THEN Take(a, MinOf({k \in DOMAIN a : a[k] = DASHDASH}) - 1)
    ELSE a

\* the flags that set the level, and --reset-sub, which takes it away
LevelFlag ==
    (Str("--sub") :> maybesub) @@ (Str("--no-sub") :> neversub) @@
    (Str("--force-sub") :> forcesub) @@ (Str("--reset-sub") :> nosublevel)

\* the places of the arguments that are no flags: each one gives a source
\* (no -f, which takes the argument after it, is on the command lines meant)
SourcePlaces(a) == {k \in DOMAIN a : a[k] # <<>> /\ a[k][1] # "-"}
NoFileFlag == \A k \in DOMAIN osArgs : osArgs[k] # Str("-f")
Classified == pc \in {"parse", "merge", "emit", "done"}

\* the level that the flags before place k of a leave in force
LevelInForce(a, k) ==
    LET flags == {j \in 1..(k - 1) : a[j] \in DOMAIN LevelFlag}
    IN IF flags = {} THEN nosublevel ELSE LevelFlag[a[MaxOf(flags)]]

\* C12, as amended: a level flag sets the level of the sources classified after
\* it, up to the next level flag or --reset-sub; the sources before it and the
\* implicit environment source have no level of their own. A source without a
\* level of its own resolves to maybe when it is a shell or lax file and to
\* never otherwise.
C12_FlagReachesLaterSources ==
    (Classified /\ NoFileFlag) =>
        LET a == BeforeDashes(osArgs)
            places == SourcePlaces(a)
            off == IF clearEnv THEN 0 ELSE 1
            place(i) == CHOOSE k \in places : Cardinality({j \in places : j < k}) = i - 1
        IN /\ Len(presort) = Cardinality(places) + off
           /\ ~clearEnv => presort[1].kind = osenv /\ presort[1].sublevel = nosublevel
           /\ \A i \in 1..Cardinality(places) :
                /\ presort[off + i].data = a[place(i)]
                /\ presort[off + i].sublevel = LevelInForce(a, place(i))
           /\ \A i \in DOMAIN presort : getsublevel(presort[i]) = ResolvedLevel(presort[i])

\* C12, as stated: a level flag on the command line sets the level of every
\* source, before or after it, the implicit environment source included.
C12_FlagReachesEverySource ==
    (Classified /\ NoFileFlag) =>
        \A f \in {Str("--sub"), Str("--no-sub"), Str("--force-sub")} :
            (/\ \E k \in DOMAIN BeforeDashes(osArgs) : osArgs[k] = f
             /\ \A k \in DOMAIN BeforeDashes(osArgs) :
                    osArgs[k] \in DOMAIN LevelFlag => osArgs[k] = f)
            => \A i \in DOMAIN presort : getsublevel(presort[i]) = LevelFlag[f]

C12_Witness ==
    /\ pc = "done"
    /\ NoFileFlag
    /\ \E i, j \in DOMAIN presort :
        /\ i < j
        /\ presort[i].kind = laxfile /\ presort[i].sublevel = nosublevel
        /\ presort[j].kind = raw /\ presort[j].sublevel = forcesub
    /\ presort[1].kind = osenv /\ presort[1].sublevel = nosublevel

-----------------------------------------------------------------------------
(* Runs for the references: the value of B is a row of pieces, each a      *)
(* reference to A (set in the environment) or to Z (set nowhere), braced   *)
(* or bare, or a character that ends a bare name. B is given as a raw      *)
(* argument under --sub, or as the only line of the lax file g.            *)

MaxPieces == 3

AssignB == Str("B=")
RefPieces == {Str("${Z}"), Str("$Z"), Str("${A}"), Str("$A"), Str("-"), Str("}"), Str("$")}
Braced == (Str("${Z}") :> Str("Z")) @@ (Str("${A}") :> Str("A"))
Bare == (Str("$Z") :> Str("Z")) @@ (Str("$A") :> Str("A"))

InitRef ==
    /\ environ = MainEnviron
    /\ procs = MainProcs
    /\ \E ps \in SeqUpTo(RefPieces, MaxPieces) :
        \/ /\ files = (GFILE :> Text(<<Str("A=1")>>))
           /\ osArgs \in {<<Str("--sub"), AssignB \o Concat(ps)>>,
                          <<Str("-S"), Str("--sub"), AssignB \o Concat(ps)>>,
                          <<Str("-o"), Str("--force-sub"), AssignB \o Concat(ps)>>}
        \/ /\ files = (GFILE :> Text(<<AssignB \o Concat(ps)>>))
           /\ osArgs \in {<<GFILE>>, <<Str("-S"), GFILE>>}
    /\ InitMain

SpecRef == InitRef /\ [][Next]_vars_all

\* what a piece becomes under the pattern vm with the table t
PieceValue(piece, vm, t) ==
    LET lookup(n) == IF n \in DOMAIN t THEN t[n] ELSE <<>>
    IN IF piece \in DOMAIN Braced THEN lookup(Braced[piece])
       ELSE IF piece \in DOMAIN Bare /\ vm = anyinterp THEN lookup(Bare[piece])
       ELSE piece

\* the text that holds the assignment of B of a source: the raw argument, or
\* the line of the file
TextOf(src) ==
    IF src.kind = raw THEN src.data
    ELSE IF src.data \in DOMAIN files /\ Len(ScanLines(files[src.data])) = 1
    THEN ScanLines(files[src.data])[1]
    ELSE <<>>

\* the pieces that a text is made of, the longest first; a character that
\* starts no piece stands for itself
RECURSIVE PiecesOf(_)
PiecesOf(s) ==
    IF s = <<>> THEN <<>>
    ELSE LET fit == {p \in RefPieces : HasPrefix(s, p)}
             p == IF fit = {} THEN <<s[1]>>
                  ELSE CHOOSE q \in fit : \A r \in fit : Len(r) <= Len(q)
         IN <<p>> \o PiecesOf(Drop(s, Len(p)))

\* C13: in an eligible value every reference that matches the pattern in force
\* and names nothing of the table gives way to the empty string (and one that
\* names something, to its value); the source does not fail for it and the run
\* is not aborted.
C13_UnknownReferenceIsEmpty ==
    /\ pc # "fatal"
    /\ \A k \in DOMAIN parselog :
        LET e == parselog[k]
            ps == PiecesOf(Drop(TextOf(e.source), Len(AssignB)))
        IN (/\ e.source.kind \in {raw, laxfile}
            /\ HasPrefix(TextOf(e.source), AssignB)
            /\ \A i \in DOMAIN ps : ps[i] \in RefPieces) =>
                /\ ~e.err
                /\ e.what = "continue"
                /\ Len(e.parsed) = 1
                /\ e.parsed[1].name = NameB
                /\ e.parsed[1].allowsubs
                /\ e.parsed[1].val =
                    Concat([i \in 1..Len(ps) |-> PieceValue(ps[i], varmatch, TableAt(e, 1))])

C13_Witness ==
    /\ pc = "done"
    /\ varmatch = tointerp
    /\ \E k \in DOMAIN parselog :
        /\ parselog[k].source.data = AssignB \o Str("${Z}$Z${A}")
        /\ parselog[k].parsed[1].val = Str("$Ze")
        /\ parselog[k].parsed[1] \in {vars[j] : j \in DOMAIN vars}

-----------------------------------------------------------------------------
(* Runs for the JSON sources: one JSON object of up to MaxKeys members,    *)
(* each value a string, a number, null, a boolean, an array or an object.  *)

MaxKeys == 2

JsonKeys == <<Str("K"), Str("L"), Str("M")>>
JsonStrings == {<<>>, Str("v")}
JsonNumbers == {Str("5"), Str("0"), Str("-1"), Str("1.5")}
JsonOthers == {JSONNULL, JSONTRUE, Str("[]"), Str("{}")}
JsonVals == {DQ \o x \o DQ : x \in JsonStrings} \cup JsonNumbers \cup JsonOthers

\* the text {"K":v1,"L":v2,...}
JsonDoc(vs) ==
    Str("{")
        \o Concat([i \in 1..Len(vs) |->
                    (IF i > 1 THEN Str(",") ELSE <<>>) \o DQ \o JsonKeys[i] \o DQ \o Str(":") \o vs[i]])
        \o Str("}")

InitJson ==
    /\ environ = MainEnviron
    /\ files = MainFiles
    /\ procs = MainProcs
    /\ \E n \in 1..MaxKeys : \E vs \in [1..n -> JsonVals] :
        osArgs \in {<<JsonDoc(vs)>>, <<Str("-o"), JsonDoc(vs)>>, <<Str("-u"), JsonDoc(vs)>>}
    /\ InitMain

SpecJson == InitJson /\ [][Next]_vars_all

\* the values that the members of the JSON argument of source src have, as
\* written: the empty sequence when src is none of the documents of the runs
WrittenValues(src) ==
    LET fits == {vs \in UNION {[1..n -> JsonVals] : n \in 1..MaxKeys} : src.data = JsonDoc(vs)}
    IN IF fits = {} THEN <<>> ELSE CHOOSE vs \in fits : TRUE

\* C14: a key of a JSON source whose value is a string or a number gives an
\* assignment that is no tombstone and whose value is the string, or the text
\* of the number, which is never empty.
C14_JsonStringsAndNumbers ==
    \A e \in Continued :
        e.source.kind = jsonmap =>
            LET vs == WrittenValues(e.source)
            IN \A i \in DOMAIN vs :
                (vs[i] \in JsonNumbers \/ vs[i][1] = "\"") =>
                    \E k \in DOMAIN e.parsed :
                        /\ e.parsed[k].name = JsonKeys[i]
                        /\ ~e.parsed[k].tombstone
                        /\ vs[i] \in JsonNumbers => e.parsed[k].val = vs[i]
                        /\ vs[i] \notin JsonNumbers => vs[i] = DQ \o e.parsed[k].val \o DQ

-----------------------------------------------------------------------------
(* Runs for the shell files: g holds up to MaxLines lines, each of one of  *)
(* the token shapes that parseShell accepts, with and without export.      *)

ShellLines ==
    {Str("A=1"), Str("B=${A}z"), Str("export B=${A}z"),
     Str("B = ${A}z"), Str("export C = ${A}z"), Str("C ${A}z")}

ShellCommands ==
    {<<Str("-s"), GFILE>>, <<Str("-s"), Str("-o"), GFILE>>,
     <<Str("-s"), Str("--sub"), GFILE>>, <<GFILE, Str("-shell")>>}

InitShell ==
    /\ environ = MainEnviron
    /\ procs = MainProcs
    /\ \E ls \in SeqUpTo(ShellLines, MaxLines) : files = (GFILE :> Text(ls))
    /\ osArgs \in ShellCommands
    /\ InitMain

SpecShell == InitShell /\ [][Next]_vars_all

\* C15: every assignment that the shell parser gives is eligible for
\* substitution, whichever of the accepted token shapes it comes from: under
\* the level maybe of a shell file its references are replaced.
C15_ShellAssignmentsEligible ==
    \A e \in Continued :
        e.source.kind = shell =>
            \A k \in DOMAIN e.raw :
                /\ e.raw[k].allowsubs
                /\ e.parsed[k].allowsubs

-----------------------------------------------------------------------------
(* Runs for the lax parser: g holds up to MaxLines lines out of LaxLines   *)
(* (assignments, comments, invalid lines, values whose quote is not closed *)
(* on their line), with or without the last newline; m is no file.         *)

NameD == Str("D")
BSL == <<"\\">>

\* each line with: the name it assigns when the parser meets it outside a
\* quoted value (<<>> for a comment or an invalid line), the quote that its
\* value opens and leaves open ("" when none), and the quotes that it holds
\* unescaped, which close a value left open by a line before it
LaxLineFacts ==
    (Str("A=1")                       :> [name |-> NameA, opens |-> "", holds |-> {}]) @@
    (Str("A")                         :> [name |-> NameA, opens |-> "", holds |-> {}]) @@
    (Str("A #c")                      :> [name |-> NameA, opens |-> "", holds |-> {}]) @@
    (Str("# c") \o DQ                 :> [name |-> <<>>, opens |-> "", holds |-> {"\""}]) @@
    (Str("=x")                        :> [name |-> <<>>, opens |-> "", holds |-> {}]) @@
    (Str("A B=") \o DQ \o Str("x")    :> [name |-> <<>>, opens |-> "", holds |-> {"\""}]) @@
    (Str("D=") \o DQ \o Str("x")      :> [name |-> NameD, opens |-> "\"", holds |-> {"\""}]) @@
    (Str("D=") \o SQ \o Str("x") \o BSL \o SQ
                                      :> [name |-> NameD, opens |-> "'", holds |-> {"'"}]) @@
    (Str("B=") \o DQ \o Str("y") \o DQ \o Str(" z")
                                      :> [name |-> NameB, opens |-> "", holds |-> {"\""}])
LaxLines == DOMAIN LaxLineFacts

MISSING == Str("m")
Chop(t) == IF t = <<>> THEN t ELSE Take(t, Len(t) - 1)

InitLax ==
    /\ environ = MainEnviron
    /\ procs = MainProcs
    /\ \E ls \in SeqUpTo(LaxLines, MaxLines) :
        \/ /\ files \in {(GFILE :> Text(ls)), (GFILE :> Chop(Text(ls)))}
           /\ osArgs \in {<<GFILE>>, <<Str("-f"), GFILE>>}
        \/ /\ files = (GFILE :> Text(ls))
           /\ osArgs \in {<<MISSING>>, <<Str("-f"), MISSING>>, <<GFILE, MISSING>>}
    /\ InitMain

SpecLax == InitLax /\ [][Next]_vars_all

\* the line after the one that closes the value that line i leaves open,
\* 0 when no later line holds its quote
CloserOf(lines, i) ==
    LET q == LaxLineFacts[lines[i]].opens
        later == {j \in (i + 1)..Len(lines) : q \in LaxLineFacts[lines[j]].holds}
    IN IF later = {} THEN 0 ELSE MinOf(later) + 1

\* the names that the lines from i on assign, in order, or the error when a
\* quoted value stays open to the end
RECURSIVE LaxExpected(_, _)
LaxExpected(lines, i) ==
    IF i > Len(lines) THEN [err |-> FALSE, names |-> <<>>]
    ELSE LET f == LaxLineFacts[lines[i]]
             next == IF f.opens = "" THEN i + 1 ELSE CloserOf(lines, i)
             rest == LaxExpected(lines, next)
         IN IF next = 0 THEN [err |-> TRUE, names |-> <<>>]
            ELSE [err |-> rest.err,
                  names |-> (IF f.name = <<>> THEN <<>> ELSE <<f.name>>) \o rest.names]

\* C16: the lax parser fails exactly when the file cannot be read or a value
\* opened with a quote finds no unescaped closing quote; a comment or an invalid
\* line gives no assignment and no failure, and the lines after it are parsed.
C16_LaxFailsOnlyOnOpenQuote ==
    \A k \in DOMAIN parselog :
        LET e == parselog[k]
            readable == e.source.data \in DOMAIN files
            lines == IF readable THEN ScanLines(files[e.source.data]) ELSE <<>>
            want == LaxExpected(lines, 1)
        IN (e.source.kind = laxfile /\ \A j \in DOMAIN lines : lines[j] \in LaxLines) =>
            /\ e.err = (~readable \/ want.err)
            /\ ~e.err => [j \in DOMAIN e.raw |-> e.raw[j].name] = want.names

C16_Witness ==
    /\ pc = "done"
    /\ \E k \in DOMAIN parselog :
        LET lines == ScanLines(files[parselog[k].source.data])
        IN /\ parselog[k].source.kind = laxfile
           /\ parselog[k].source.data \in DOMAIN files
           /\ Len(lines) = 3
           /\ lines[1] = Str("=x")
           /\ LaxLineFacts[lines[2]].opens = "\""
           /\ lines[3] = Str("A B=") \o DQ \o Str("x")
           /\ ~parselog[k].err
           /\ Len(parselog[k].raw) = 1

-----------------------------------------------------------------------------
(* Runs for the escapes: g is the one line E='...' or E="...", the value   *)
(* up to MaxEscapes items, each a backslash with the character after it    *)
(* or the plain x.                                                         *)

MaxEscapes == 2

NameE == Str("E")
EscapedChars == {"\\", "'", "\"", "a", "b", "f", "n", "r", "t", "v", "q"}
EscItems == {<<"\\", c>> : c \in EscapedChars} \cup {Str("x")}

InitEsc ==
    /\ environ = MainEnviron
    /\ procs = MainProcs
    /\ \E items \in SeqUpTo(EscItems, MaxEscapes) : \E q \in {SQ, DQ} :
        files = (GFILE :> Text(<<NameE \o Str("=") \o q \o Concat(items) \o q>>))
    /\ osArgs \in {<<GFILE>>, <<Str("-o"), GFILE>>, <<Str("--no-sub"), GFILE>>}
    /\ InitMain

SpecEsc == InitEsc /\ [][Next]_vars_all

\* the character that a backslash and c stand for inside the quote q, as the
\* claim lists them; <<>> when the two characters stay as they are
Decoded(q, c) ==
    IF c \in {"\\", "'"} THEN <<c>>
    ELSE IF q = SQ THEN <<>>
    ELSE CASE c = "\"" -> <<"\"">>
           [] c = "a" -> <<BEL>>
           [] c = "b" -> <<BS>>
           [] c = "f" -> <<"\f">>
           [] c = "n" -> <<"\n">>
           [] c = "r" -> <<"\r">>
           [] c = "t" -> <<"\t">>
           [] c = "v" -> <<VT>>
           [] OTHER -> <<>>

ItemValue(q, item) ==
    IF Len(item) = 2 /\ Decoded(q, item[2]) # <<>> THEN Decoded(q, item[2]) ELSE item

\* C17: a quoted lax value is decoded with the table of its quote: \\ and \'
\* in a single-quoted value; these and \" \a \b \f \n \r \t \v in a
\* double-quoted one; a backslash before any other character stays, with it.
C17_LaxEscapeTables ==
    \A e \in Continued :
        e.source.kind = laxfile =>
            \A items \in SeqUpTo(EscItems, MaxEscapes) : \A q \in {SQ, DQ} :
                files[e.source.data] = Text(<<NameE \o Str("=") \o q \o Concat(items) \o q>>) =>
                    /\ Len(e.parsed) = 1
                    /\ e.parsed[1].name = NameE
                    /\ e.parsed[1].val =
                        Concat([i \in 1..Len(items) |-> ItemValue(q, items[i])])

C17_Witness ==
    /\ pc = "done"
    /\ \E e \in Continued :
        /\ e.source.kind = laxfile
        /\ files[e.source.data] = Text(<<Str("E=") \o DQ \o <<"\\", "n", "\\", "q">> \o DQ>>)
        /\ \E k \in DOMAIN vars : vars[k].name = NameE /\ vars[k].val = <<"\n", "\\", "q">>

-----------------------------------------------------------------------------
(* The kinds of the sources, from the places of the command line.          *)

\* place k of a holds the file name that the -f before it takes
RECURSIVE Operand(_, _)
Operand(a, k) == k > 1 /\ a[k - 1] = Str("-f") /\ ~Operand(a, k - 1)

\* the flags that set the default kind
KindFlag ==
    (Str("-s") :> shell) @@ (Str("--s") :> shell) @@
    (Str("-shell") :> shell) @@ (Str("--shell") :> shell) @@
    (Str("-x") :> file) @@ (Str("--x") :> file) @@
    (Str("-strict") :> file) @@ (Str("--strict") :> file)
KindFlags(a) == {j \in DOMAIN a : a[j] \in DOMAIN KindFlag /\ ~Operand(a, j)}

\* the kind that the shape of an argument gives it, notype when none
ShapeKind(x) ==
    IF x = Str("A=1") THEN raw
    ELSE IF x \in {JsonNullA, Str("{A}")} THEN jsonmap
    ELSE IF x \in {Str("p:1"), Str("p:9")} THEN pid
    ELSE notype

\* the places that give a source: the operands of -f and the arguments that
\* are no flag
Sourced(a) ==
    {k \in DOMAIN a : Operand(a, k) \/ (a[k][1] # "-" /\ ~Operand(a, k))}

\* the kind claimed for the source of place k
ClaimedKind(a, k) ==
    LET before == {j \in KindFlags(a) : j < k}
        after == {j \in KindFlags(a) : j > k}
    IN IF ~Operand(a, k) /\ ShapeKind(a[k]) # notype THEN ShapeKind(a[k])
       ELSE IF before # {} THEN KindFlag[a[MaxOf(before)]]
       ELSE IF after # {} THEN KindFlag[a[MinOf(after)]]
       ELSE laxfile

\* C18: after the classification no source is untyped; a source whose shape
\* gives it no kind has the kind of the latest default-kind flag before it,
\* else of the first one after it, else laxfile; a source with a kind keeps it
\* whatever flag follows.
C18_KindsAfterClassification ==
    Classified =>
        LET a == BeforeDashes(osArgs)
            places == Sourced(a)
            own == Pick(presort, {k \in DOMAIN presort : presort[k].kind # osenv})
        IN /\ \A k \in DOMAIN presort : presort[k].kind # notype
           /\ Len(own) = Cardinality(places)
           /\ \A k \in places :
                LET n == 1 + Cardinality({j \in places : j < k})
                IN /\ own[n].data = a[k]
                   /\ own[n].kind = ClaimedKind(a, k)

C18_Witness ==
    /\ Classified
    /\ osArgs = <<Str("f"), Str("-s"), Str("-x")>>
    /\ \E k \in DOMAIN presort : presort[k].data = Str("f") /\ presort[k].kind = shell

-----------------------------------------------------------------------------
(* Runs for the output: up to MaxFlags flags of the output, at most one    *)
(* source, and after -- up to MaxNames names asked for; the environment is *)
(* not in the order of the names.                                          *)

MaxFlags == 2
MaxNames == 2

NameH == Str("H")
NameZ == Str("Z")
OutEnviron == <<Str("H=h"), Str("A=e")>>
JsonNullH == Str("{") \o <<"\"">> \o Str("H") \o <<"\"">> \o Str(":null}")
OutFlags ==
    {Str("-o"), Str("-n"), Str("-p"), Str("-u"),
     Str("--sort"), Str("--sorted"), Str("--no-sort"), Str("--unsorted")}
OutSources == {<<>>, <<Str("B=1")>>, <<JsonNullH>>}
OutNames == {NameA, NameH, NameZ}

InitOut ==
    /\ environ = OutEnviron
    /\ files = MainFiles
    /\ procs = MainProcs
    /\ \E flags \in SeqUpTo(OutFlags, MaxFlags) : \E src \in OutSources :
            \E keys \in SeqUpTo(OutNames, MaxNames) :
                osArgs \in {flags \o src, flags \o src \o <<DASHDASH>> \o keys}
    /\ InitMain

SpecOut == InitOut /\ [][Next]_vars_all

Ascending(vs) ==
    \A k \in 1..(Len(vs) - 1) : ~strless(vs[k + 1].name, vs[k].name)
SameEntries(vs, ws) ==
    /\ Len(vs) = Len(ws)
    /\ \A v \in {vs[k] : k \in DOMAIN vs} \cup {ws[k] : k \in DOMAIN ws} :
        Cardinality({k \in DOMAIN vs : vs[k] = v})
            = Cardinality({k \in DOMAIN ws : ws[k] = v})

SortFlag ==
    (Str("--sort") :> TRUE) @@ (Str("--sorted") :> TRUE) @@
    (Str("--no-sort") :> FALSE) @@ (Str("--unsorted") :> FALSE)

\* what the flags of the command line ask for: sorted unless the last of them
\* is --no-sort or --unsorted
AskedSorted(a) ==
    LET flags == {k \in DOMAIN a : a[k] \in DOMAIN SortFlag}
    IN flags = {} \/ SortFlag[a[MaxOf(flags)]]

\* C19: a dump is in the order of the names by default and after --sort or
\* --sorted, and in the order of the merged assignments after --no-sort or
\* --unsorted.
C19_DumpOrderAsFlagged ==
    (pc = "done" /\ output.kind = "dump" /\ mode \in {dump, names}) =>
        IF AskedSorted(BeforeDashes(osArgs))
        THEN Ascending(output.vars) /\ SameEntries(output.vars, vars)
        ELSE output.vars = vars

\* the final assignments hold nothing for the name
Absent(key) == \A k \in DOMAIN vars : vars[k].name # key

\* C20: in the value-only mode a name asked for that the final assignments do
\* not hold gives no output and one line in the log, and the other names are
\* served: the output holds, in whatever order, what the final assignments
\* hold for the names asked for, and nothing else.
C20_AbsentNameOnlyLogged ==
    (pc = "done" /\ output.kind = "dump" /\ mode = values) =>
        /\ SameEntries(output.vars,
             Concat([i \in DOMAIN cmd |-> SelectSeq(vars, LAMBDA v : v.name = cmd[i])]))
        /\ output.log = SelectSeq(cmd, Absent)

-----------------------------------------------------------------------------
(* Runs for the table of the references: the lax file g, whose lines refer *)
(* to A, B and H, after raw, JSON and process sources that assign A, with  *)
(* and without the environment source.                                     *)

RefH == Str("${H}")
ResLines == {Str("A=2"), Str("B=${A}"), Str("C=${H}"), Str("D=${B}x")}
ResClear == {<<>>, <<Str("-u")>>, <<Str("--clear")>>, <<Str("-")>>}
RawRefH == Str("A=${H}")
ResSources ==
    {<<>>, <<Str("A=1")>>, <<RawRefH>>, <<JsonNullA>>, <<Str("p:1")>>,
     <<Str("A=1"), Str("p:1")>>, <<JsonNullA, Str("A=1")>>, <<Str("A=1"), JsonNullA>>}

InitRes ==
    /\ environ = MainEnviron
    /\ procs = MainProcs
    /\ \E ls \in SeqUpTo(ResLines, MaxLines) : files = (GFILE :> Text(ls))
    /\ \E pre \in ResClear : \E srcs \in ResSources :
        osArgs \in {pre \o srcs \o <<GFILE>>, pre \o <<GFILE>> \o srcs}
    /\ InitMain

SpecRes == InitRes /\ [][Next]_vars_all

\* the log entries of the lax file g, and its lines
OfG == {e \in Continued : e.source.kind = laxfile /\ e.source.data = GFILE}
LinesOfG == ScanLines(files[GFILE])

\* C21: the table of the references starts from the environment of the
\* process, also when -u, --clear or - suppresses the environment source: the
\* line C=${H} gives C the value H has there, while the final assignments do
\* not hold H.
C21_TableStartsFromEnviron ==
    /\ \A e \in OfG :
        /\ Len(e.parsed) = Len(LinesOfG)
        /\ \A j \in DOMAIN LinesOfG :
            LinesOfG[j] = Str("C=${H}") =>
                e.parsed[j].name = NameC /\ e.parsed[j].val = Getenv(environ, Str("H"))
    /\ (Merged /\ clearEnv) => Str("H") \notin NamesOf(vars)

C21_Witness ==
    /\ pc = "done"
    /\ clearEnv
    /\ Getenv(environ, Str("H")) = Str("h")
    /\ Str("H") \notin NamesOf(vars)
    /\ \E k \in DOMAIN vars : vars[k].name = NameC /\ vars[k].val = Str("h")

-----------------------------------------------------------------------------
(* The final assignments, name by name.                                    *)

\* the places of the stream st that hold the name n
PlacesOf(st, n) == {k \in DOMAIN st : st[k].name = n}

\* C22: a name is in the final assignments exactly when the stream holds an
\* assignment of it and no tombstone of it at any place; its value is then
\* that of the first assignment of the name in the stream. A JSON null so
\* removes a name that a raw argument defines.
C22_PresentIffNoTombstone ==
    Merged =>
        /\ NamesOf(vars) \subseteq NamesOf(premerge)
        /\ \A n \in NamesOf(premerge) :
            LET places == PlacesOf(premerge, n)
            IN /\ n \in NamesOf(vars) <=> \A k \in places : ~premerge[k].tombstone
               /\ \A j \in DOMAIN vars :
                    vars[j].name = n => vars[j].val = premerge[MinOf(places)].val

C22_Witness ==
    /\ pc = "done"
    /\ NameA \notin NamesOf(vars)
    /\ \E a, b \in PlacesOf(premerge, NameA) :
        /\ a < b
        /\ premerge[a].val = Str("1") /\ ~premerge[a].tombstone
        /\ premerge[b].tombstone
    /\ \E e \in DOMAIN parselog : parselog[e].source.kind = raw
    /\ \E n \in NamesOf(vars) : Cardinality(PlacesOf(premerge, n)) > 1

-----------------------------------------------------------------------------
(* The value a reference resolves to, against the merge.                   *)

\* the value that the merge of the stream st gives the name n: that of its
\* first assignment, the empty string when a tombstone names n
ValueInMerge(st, n) ==
    IF \E k \in PlacesOf(st, n) : st[k].tombstone THEN <<>>
    ELSE st[MinOf(PlacesOf(st, n))].val

\* C23: a reference to A in the file g, with no assignment of A before it in
\* g itself, resolves to the value that the merge of the sources before g
\* gives A: the first assignment in the order of the sources, the empty string
\* when one of them is a tombstone.
C23_ReferenceResolvesToMergeWinner ==
    \A e \in OfG :
        \A j \in DOMAIN LinesOfG :
            (/\ LinesOfG[j] = Str("B=${A}")
             /\ \A i \in 1..(j - 1) : LinesOfG[i] # Str("A=2")
             /\ PlacesOf(e.env, NameA) # {})
            => /\ j <= Len(e.parsed)
               /\ e.parsed[j].val = ValueInMerge(e.env, NameA)

-----------------------------------------------------------------------------
(* The environment against the files and the processes.                    *)

\* the names the environment of the process sets
EnvironNames == NamesOf(mapvars(environ))

\* the source is a raw argument or a JSON map that defines or deletes n
ArgumentNames(src, n) ==
    \/ src.kind = raw /\ RawName(src.data) = n
    \/ src.kind = jsonmap /\ src.data = JsonNullA /\ n = NameA

\* C24: with the environment source among the sources, a variable of the
\* environment that no raw argument and no JSON map names has its value of
\* the environment in the final assignments, whatever the files and the
\* processes say of it.
C24_EnvironmentKeptAgainstFiles ==
    (Merged /\ ~clearEnv) =>
        \A n \in EnvironNames :
            (\A k \in DOMAIN presort : ~ArgumentNames(presort[k], n))
            => \E j \in DOMAIN vars : vars[j].name = n /\ vars[j].val = Getenv(environ, n)

-----------------------------------------------------------------------------
(* The command of the fallback, against the command line.                  *)

\* the source whose failure made the rest the command, and its place among
\* the classified sources, which are in the order of the command line
Failing == parselog[Len(parselog)].source
PlaceOfFailing == MinOf({k \in DOMAIN presort : presort[k] = Failing})

\* the arguments of the sources from place p on, in the order of the command line
ArgumentsFrom(p) ==
    LET K == {k \in DOMAIN presort : k >= p /\ presort[k].kind # osenv}
        from == Pick(presort, K)
    IN [n \in DOMAIN from |-> from[n].data]

\* C25: on the fallback the command is the failing argument, then the
\* arguments of the sources that come after it on the command line, in the
\* order of the command line, then what followed --.
C25_CommandInCommandLineOrder ==
    (FellBack /\ pc = "done") =>
        cmd = ArgumentsFrom(PlaceOfFailing) \o AfterDashes(osArgs)


\* C26: on the fallback every word of the command is an argument of the
\* command line: the empty origin of the environment source is not among
\* them, whatever the kind of the failing source.
C26_CommandWordsAreArguments ==
    FellBack =>
        \A k \in DOMAIN cmd : \E j \in DOMAIN osArgs : cmd[k] = osArgs[j]

-----------------------------------------------------------------------------
(* Runs for the order of the keys: one JSON object of up to MaxKeys        *)
(* members K, L, .. whose values refer to each other and to the            *)
(* environment, with the interpolation of the JSON source on and off.      *)

OrderVals ==
    {DQ \o x \o DQ : x \in {Str("1"), Str("$K"), Str("$L"), Str("$H")}} \cup {JSONNULL}
OrderFlags ==
    {<<>>, <<Str("--sub")>>, <<Str("--force-sub")>>, <<Str("-u"), Str("--sub")>>,
     <<Str("-S"), Str("--sub")>>}

InitOrder ==
    /\ environ = MainEnviron
    /\ files = MainFiles
    /\ procs = MainProcs
    /\ \E n \in 1..MaxKeys : \E vs \in [1..n -> OrderVals] : \E pre \in OrderFlags :
        osArgs = pre \o <<JsonDoc(vs)>>
    /\ InitMain

SpecOrder == InitOrder /\ [][Next]_vars_all

\* the name-to-value mapping of a list of assignments that holds no name twice
AsMapping(vs) == [n \in NamesOf(vs) |-> (CHOOSE k \in DOMAIN vs : vs[k].name = n)]
ValueMapping(vs) == [n \in NamesOf(vs) |-> vs[AsMapping(vs)[n]].val]

\* the final assignments of the run, had the range over the keys of the JSON
\* source of log entry i given the result res: the sources after it in these
\* runs (the environment) are not interpolated
FinalWith(i, res) ==
    LET e == parselog[i]
        batch == substitutevars(e.source, environ, e.env, res.vars, varmatch)
        after == Concat([k \in 1..(Len(parselog) - i) |-> parselog[i + k].parsed])
    IN setvars(uniqVarsByName(e.env \o batch \o after))

\* C27: the final name-to-value mapping does not depend on the order in
\* which the keys of a JSON source are visited, with the interpolation of
\* the source on or off: every order gives the mapping that the run gave.
C27_KeyOrderDoesNotMatter ==
    pc = "done" =>
        \A i \in DOMAIN parselog :
            (parselog[i].source.kind = jsonmap /\ parselog[i].what = "continue") =>
                \A res \in parseJsonMap(parselog[i].source) :
                    ValueMapping(FinalWith(i, res)) = ValueMapping(vars)

-----------------------------------------------------------------------------
(* What a failing source leaves behind.                                    *)

\* the lax file g of the runs of the lax parser has a value whose quote is
\* never closed
OpenQuoteInG ==
    /\ GFILE \in DOMAIN files
    /\ \A j \in DOMAIN ScanLines(files[GFILE]) : ScanLines(files[GFILE])[j] \in LaxLines
    /\ LaxExpected(ScanLines(files[GFILE]), 1).err

\* what the rounds of the source loop before round k appended
AppendedBefore(k) == Concat([j \in 1..(k - 1) |-> parselog[j].parsed])

\* C28: a source whose parse fails appends nothing and is the last one
\* parsed, so that no later source sees anything of it: a lax file with an
\* open quote leaves the accumulated list as the sources before it made it,
\* also when valid lines precede the open quote.
C28_FailedSourceContributesNothing ==
    /\ \A k \in DOMAIN parselog :
        parselog[k].err =>
            /\ parselog[k].parsed = <<>>
            /\ k = Len(parselog)
            /\ pc \in {"merge", "fatal"} => vars = AppendedBefore(k)
            /\ Merged => premerge = AppendedBefore(k)
    /\ \A k \in DOMAIN parselog :
        (parselog[k].source.data = GFILE /\ OpenQuoteInG) =>
            /\ parselog[k].err
            /\ AppendedBefore(k) = mapvars(environ)

C28_Witness ==
    /\ pc = "done"
    /\ OpenQuoteInG
    /\ Len(ScanLines(files[GFILE])) = 2
    /\ ScanLines(files[GFILE])[1] = Str("A=1")
    /\ parselog[Len(parselog)].source.data = GFILE
    /\ parselog[Len(parselog)].err
    /\ premerge = mapvars(environ)
    /\ NameD \notin NamesOf(vars)

-----------------------------------------------------------------------------
(* The rounds of the loop of the lax parser.                               *)

\* the buffers that the text t ends with: every buffer a round can start from
Suffixes(t) == {Drop(t, k) : k \in 0..(Len(t) - 1)}

\* the number of rounds after which the loop of parseLax on the buffer d has
\* ended (empty buffer, or an error returned), -1 when it has not within
\* fuel rounds
RECURSIVE RoundsToEnd(_, _)
RoundsToEnd(d, fuel) ==
    IF d = <<>> THEN 0
    ELSE IF fuel = 0 THEN -1
    ELSE LET s == laxStep(d)
             r == RoundsToEnd(s.rest, fuel - 1)
         IN IF s.kind = "error" THEN 1 ELSE IF r = -1 THEN -1 ELSE r + 1

\* C29: when the sources are parsed, every round of the loop of the lax
\* parser, whatever it finds (comment, empty line, assignment, invalid line),
\* leaves a shorter buffer unless it returns an error, and the loop on a file
\* ends within as many rounds as the file has characters.
C29_LaxLoopTerminates ==
    pc = "parse" =>
        \A f \in DOMAIN files :
            /\ \A b \in Suffixes(files[f]) :
                LET s == laxStep(b)
                IN /\ s.kind \in {"comment", "empty", "var", "invalid", "error"}
                   /\ s.kind # "error" => Len(s.rest) < Len(b)
            /\ RoundsToEnd(files[f], Len(files[f])) # -1

C29_Witness ==
    /\ pc = "done"
    /\ \E e \in Continued :
        /\ e.source.kind = laxfile /\ e.source.data = GFILE
        /\ ScanLines(files[GFILE]) = <<Str("# c") \o DQ, Str("=x"), Str("A=1")>>
        /\ Len(e.raw) = 1
        /\ RoundsToEnd(files[GFILE], Len(files[GFILE])) = 3
    /\ \E b \in Suffixes(files[GFILE]) : laxStep(b).kind = "empty"

-----------------------------------------------------------------------------
(* One pass of the replacement.                                            *)

\* the value the table of log entry e holds for the name n before the batch
\* of e: that of the last assignment before it, else that of the environment
StoredBefore(e, n) ==
    IF PlacesOf(e.env, n) # {} THEN e.env[MaxOf(PlacesOf(e.env, n))].val
    ELSE Getenv(environ, n)

\* C30: the text put in the place of a reference is not scanned again: when
\* the value stored for A is the text ${H}, from a raw argument that is not
\* interpolated, the line B=${A} of g gives B the text ${H}, not the value
\* of H, and a line D=${B}x after it, with no other assignment of B between
\* the two, gives D the text ${H}x.
C30_InsertedTextNotRescanned ==
    \A e \in OfG :
        \A j \in DOMAIN LinesOfG :
            (/\ LinesOfG[j] = Str("B=${A}")
             /\ \A i \in 1..(j - 1) : LinesOfG[i] # Str("A=2")
             /\ StoredBefore(e, NameA) = RefH)
            => /\ e.parsed[j].allowsubs
               /\ e.parsed[j].val = RefH
               /\ \A k \in (j + 1)..Len(LinesOfG) :
                    (/\ LinesOfG[k] = Str("D=${B}x")
                     /\ \A i \in (j + 1)..(k - 1) : LinesOfG[i] # Str("B=${A}"))
                    => e.parsed[k].val = RefH \o Str("x")

C30_Witness ==
    /\ pc = "done"
    /\ Getenv(environ, Str("H")) = Str("h")
    /\ \E e \in OfG :
        /\ LinesOfG = <<Str("B=${A}"), Str("D=${B}x"), Str("C=${H}")>>
        /\ StoredBefore(e, NameA) = RefH
        /\ \E k \in DOMAIN e.env : e.env[k].val = RefH /\ ~e.env[k].allowsubs
    /\ \E k \in DOMAIN vars : vars[k].name = NameB /\ vars[k].val = RefH
    /\ \E k \in DOMAIN vars : vars[k].name = NameD /\ vars[k].val = RefH \o Str("x")
    /\ \E k \in DOMAIN vars : vars[k].name = NameC /\ vars[k].val = Str("h")

====
